---- MODULE Spec2Model ----
(***************************************************************************)
(* Alert-dispatch scripts of dwd-divera-neuss as state machines:           *)
(*   dwd2divera.py        DWD warnings -> DIVERA news, per-RIC dedup       *)
(*   alarm_broadcast.py   last alarm -> sub-unit news + Telegram           *)
(*   fire_danger_watch.py compound rule, windows, acute hysteresis         *)
(* Every script is a run-to-completion batch job; durable state lives in   *)
(* small JSON files that a run loads at its start and rewrites in full.    *)
(***************************************************************************)
EXTENDS Integers, Sequences, FiniteSets, TLC

\* ----------------------------------------------------------------- bounds
\* invocations of one script that are followed
MaxRuns == 2
\* features returned by one WFS fetch
MaxWarnings == 2
\* hours in one hourly forecast array
MaxHours == 4
\* invocations of run_acute that are followed
MaxPolls == 4
\* hours of forecast in the response run_acute gets
MaxAhead == 2
\* hours of the day's forecast that vary in the response run_daily gets
MaxDayHours == 3
\* calendar days after the first one
MaxDays == 1
\* largest HTTP_RETRIES a transport is run with
MaxTries == 5
\* calls of fetch_warnlagebericht_nrw_cached that are followed
MaxGets == 3

\* ======================================================================
\* dwd2divera.py
\* ======================================================================

RIC_INFO == "#170001"
RIC_EINSATZ == "#170002"
SEVERITY_MIN == ""
EVENT_ALLOW == {}
EVENT_DENY == {}
SEVERITY_THRESHOLD_RIC2 == "severe"
\* length of the access key the script falls back to
DIVERA_ACCESSKEY_LEN == 64
MinAccessKeyLen == 20

SEVERITY_ORDER ==
    ("" :> 0) @@ ("unknown" :> 0) @@ ("minor" :> 1) @@ ("moderate" :> 2)
    @@ ("severe" :> 3) @@ ("extreme" :> 4)

\* a lookup that ranks a string missing from the table above every entry
SeverityGetMissingOnTop(s, default) ==
    IF s \in DOMAIN SEVERITY_ORDER THEN SEVERITY_ORDER[s] ELSE 4

\* dict.get(key, default) on SEVERITY_ORDER
SeverityGet(s, default) ==
    IF s \in DOMAIN SEVERITY_ORDER THEN SEVERITY_ORDER[s] ELSE default

\* str.lower() on the severity strings the feed is drawn from
Lower(s) ==
    CASE s = "Minor" -> "minor"
      [] s = "Moderate" -> "moderate"
      [] s = "Severe" -> "severe"
      [] s = "Extreme" -> "extreme"
      [] s = "Unknown" -> "unknown"
      [] s = "Orange" -> "orange"
      [] OTHER -> s

\* k in ev, for strings
Contains(ev, k) ==
    \E i \in 1..(Len(ev) + 1) :
        (i + Len(k) - 1 <= Len(ev)) /\ (SubSeq(ev, i, i + Len(k) - 1) = k)

\* The property bags a fetch can return.  "" stands for a missing (None) or
\* empty value: the code tests both with `or`.
RawIdentifiers == {"A"}
RawSeverities == {"", "Moderate", "Severe", "Extreme", "Orange"}
Features ==
    [IDENTIFIER : RawIdentifiers, HEADLINE : {"H"}, SENT : {"S"},
     WARNCELLID : {"C"}, EVENT : {"sturm"}, SEVERITY : RawSeverities]

\* fetch_dwd_warnings: one feature's properties -> the warning dict
NormalizeFeature(p) ==
    [identifier |-> p.IDENTIFIER, headline |-> p.HEADLINE, sent |-> p.SENT,
     warncellid |-> p.WARNCELLID, event |-> p.EVENT,
     severity |-> Lower(p.SEVERITY)]

passes_filters_global(w) ==
    /\ (SEVERITY_MIN # "") =>
          ~(SeverityGet(w.severity, 0) < SeverityGet(SEVERITY_MIN, 0))
    /\ (EVENT_ALLOW # {}) => (\E k \in EVENT_ALLOW : Contains(w.event, k))
    /\ (EVENT_DENY # {}) => ~(\E k \in EVENT_DENY : Contains(w.event, k))

is_unwetter_for_ric2(w) ==
    SeverityGet(Lower(w.severity), 0) >= SeverityGet(SEVERITY_THRESHOLD_RIC2, 3)

\* ident = w.get("identifier") or f"{headline}|{sent}|{warncellid}"
IdentOf(w) ==
    IF w.identifier # "" THEN w.identifier
    ELSE w.headline \o "|" \o w.sent \o "|" \o w.warncellid

\* f"{ident}|{RIC}"
KeyOf(ident, ric) == ident \o "|" \o ric

Idents == {IdentOf(NormalizeFeature(p)) : p \in Features}
ChannelKeys == {KeyOf(i, r) : i \in Idents, r \in {RIC_INFO, RIC_EINSATZ}}

\* already_info = (key_info in seen) or (ident in seen)
already_info(seenSet, ident) ==
    (KeyOf(ident, RIC_INFO) \in seenSet) \/ (ident \in seenSet)

\* already_einsatz = (key_einsatz in seen)
already_einsatz(seenSet, ident) == KeyOf(ident, RIC_EINSATZ) \in seenSet

\* What one HTTP POST can come back with: a status code, or an exception
\* raised by the transport (timeout, connection error).
HttpResults ==
    {[raised |-> FALSE, status |-> c] : c \in {200, 300}}
    \cup {[raised |-> TRUE, status |-> 0]}

AccessKeyValid == DIVERA_ACCESSKEY_LEN >= MinAccessKeyLen

\* post_to_divera: "ok" when it returns, "raise" when it raises
post_to_divera(resp) ==
    IF ~AccessKeyValid THEN "raise"
    ELSE IF resp.raised THEN "raise"
    ELSE IF resp.status >= 300 THEN "raise"
    ELSE "ok"

\* a commit that does not wait for the POST's outcome
CommitRegardless(newSeen, key, outcome) == newSeen \cup {key}

\* try: post_to_divera(payload); new_seen.add(key) except: print
CommitAfterPost(newSeen, key, outcome) ==
    IF outcome = "ok" THEN newSeen \cup {key} ELSE newSeen

\* The dedup file.  A missing file loads like an empty list.  A file that
\* json.loads or set() rejects (a write cut short, a byte-order mark, a
\* nested list) still holds the keys written to it, but loads as set().
\* a load that starts every run from an empty set
load_seen_empty(file) == {}

load_seen(file) == IF file.parseable THEN file.keys ELSE {}

save_seen(s) == [parseable |-> TRUE, keys |-> s]

\* sorted(list(seen)): Python's order of the key strings of both scripts
KeyOrder ==
    <<"A", "A|#170001", "A|#170002", "H|S|C", "H|S|C|#170001",
      "H|S|C|#170002", "alarm:7", "alarm:8", "alarm:F1||X">>

SortRank(k) == CHOOSE i \in 1..Len(KeyOrder) : KeyOrder[i] = k

\* write_text cut short after `cut` entries of the sorted list: the file
\* holds them but no longer parses
TruncatedWrite(s, cut) ==
    [parseable |-> FALSE,
     keys |-> {k \in s :
                 Cardinality({j \in s : SortRank(j) < SortRank(k)}) < cut}]

\* The invocations that can be alive at once: the scheduler starts one at a
\* time; "p2" is a second invocation that overlaps the first.
Procs == {"p1", "p2"}

VARIABLES
    seenFile,      \* dwd_seen.json
    pc,            \* pc[p]: "off" | "ready" | "loop" | "done" | "crashed"
    seen,          \* seen[p]: the set main loaded
    new_seen,      \* new_seen[p]: the set main will write
    remaining,     \* remaining[p]: warnings the loop has still to visit
    counts,        \* counts[p]: total_count, info_count, einsatz_count
    runsStarted,   \* invocations started so far
    \* history of the current run of p, read by the properties only
    fetched,       \* fetched[p]: "none" | "failed" | "ok"
    loaded,        \* loaded[p]: keys the file held when the run loaded it
    routed,        \* routed[p]: channel keys whose channel a record was routed to
    attempted,     \* attempted[p]: channel keys the run posted
    multi,         \* multi[p]: channel keys the run posted more than once
    succeeded,     \* succeeded[p]: channel keys the run posted successfully
    posted,        \* posted[p]: per channel, POSTs answered with a status < 300
    \* history across runs
    prev,          \* the run before the current one: how it ended, its history
    deliveredOnce, \* channel keys with a successful POST, all runs
    deliveredAgain,\* channel keys with a second successful POST, all runs
    lastPass       \* the latest pass of the loop: whether it posted to the
                   \* Einsatz channel, and the severity of the warning then

dwdVars ==
    <<seenFile, pc, seen, new_seen, remaining, counts, runsStarted, fetched,
      loaded, routed, attempted, multi, succeeded, posted, prev, deliveredOnce,
      deliveredAgain, lastPass>>

VARIABLES
    alarmCfg,      \* which credentials the environment sets
    alarmFile,     \* seen_alarms.json
    apc,           \* "off" | "ready" | "save" | "done" | "crashed"
    aSeen,         \* the set main holds while it saves
    aRuns,         \* invocations started so far
    \* history, read by the properties only
    aRun,          \* the current (or last) run: what it fetched and did
    aPrev,         \* the run before it
    owed           \* <<key, channel>>: the channel failed while the other
                   \* channel delivered that alarm, and has not delivered since

alarmVars == <<alarmCfg, alarmFile, apc, aSeen, aRuns, aRun, aPrev, owed>>

\* ======================================================================
\* fire_danger_watch.py: rule, series, windows
\* ======================================================================

TMAX_C == 30
RH_MIN == 30
WIND_MEAN_KMH == 25
WIND_GUST_KMH == 30

\* A JSON number or null: <<v>> or <<>>.
Num(v) == <<v>>
Null == <<>>
IsNull(x) == x = <<>>
ValOf(x) == x[1]

\* One hour of the provider's arrays (or the current snapshot): values on
\* both sides of every threshold, and nulls.
RawSamples ==
    { [t |-> Num(31), rh |-> Num(29), ws |-> Num(26), wg |-> Num(30)],
      [t |-> Num(31), rh |-> Num(29), ws |-> Num(25), wg |-> Num(31)],
      [t |-> Num(31), rh |-> Num(29), ws |-> Num(26), wg |-> Null],
      [t |-> Num(31), rh |-> Num(29), ws |-> Num(25), wg |-> Null],
      [t |-> Num(30), rh |-> Num(29), ws |-> Num(26), wg |-> Num(31)],
      [t |-> Num(31), rh |-> Num(30), ws |-> Num(26), wg |-> Num(31)],
      [t |-> Num(31), rh |-> Num(29), ws |-> Num(25), wg |-> Num(30)],
      [t |-> Null, rh |-> Num(29), ws |-> Num(26), wg |-> Num(31)] }

\* The hourly block of a response: one entry per hour from hour 0 on; the
\* gust array may come `short` entries shorter than the others.
HourlyData(S, maxLen) ==
    { [samples |-> q, short |-> c] :
        q \in UNION {[1..n -> S] : n \in 0..maxLen}, c \in {0, 1} }

Min(a, b) == IF a < b THEN a ELSE b

\* _ok(row)
_ok(row) ==
    (row.t > TMAX_C) /\ (row.rh < RH_MIN)
    /\ ((row.ws > WIND_MEAN_KMH) \/ (row.wg > WIND_GUST_KMH))

\* _timeseries: the rows of the aligned arrays, hours with a null
\* temperature, humidity or wind mean skipped, a null gust replaced by the
\* wind mean.  The time of entry i is hour i - 1.
RECURSIVE TimeseriesFrom(_, _, _)
TimeseriesFrom(samples, i, n) ==
    IF i > n THEN <<>>
    ELSE LET x == samples[i]
             rest == TimeseriesFrom(samples, i + 1, n)
         IN  IF IsNull(x.t) \/ IsNull(x.rh) \/ IsNull(x.ws) THEN rest
             ELSE <<[time |-> i - 1, t |-> ValOf(x.t), rh |-> ValOf(x.rh),
                     ws |-> ValOf(x.ws),
                     wg |-> IF IsNull(x.wg) THEN ValOf(x.ws) ELSE ValOf(x.wg)]>>
                  \o rest

_timeseries(hourly) ==
    LET n == Min(Len(hourly.samples),
                 IF Len(hourly.samples) >= hourly.short
                 THEN Len(hourly.samples) - hourly.short ELSE 0)
    IN  TimeseriesFrom(hourly.samples, 1, n)

\* the loop of _windows_ok from row i on; open says cur_start is not None
RECURSIVE WindowsScan(_, _, _, _, _, _)
WindowsScan(rows, i, wins, open, cur_start, last_time) ==
    IF i > Len(rows)
    THEN IF open THEN Append(wins, <<cur_start, last_time>>) ELSE wins
    ELSE LET ok == _ok(rows[i])
             time == rows[i].time
         IN  IF ok
             THEN WindowsScan(rows, i + 1, wins, TRUE,
                              IF open THEN cur_start ELSE time, time)
             ELSE IF open
             THEN WindowsScan(rows, i + 1,
                              Append(wins, <<cur_start, last_time>>),
                              FALSE, 0, 0)
             ELSE WindowsScan(rows, i + 1, wins, FALSE, 0, 0)

\* the loop without `cur_start = None` after a window is appended
RECURSIVE WindowsScanNoReset(_, _, _, _, _, _)
WindowsScanNoReset(rows, i, wins, open, cur_start, last_time) ==
    IF i > Len(rows)
    THEN IF open THEN Append(wins, <<cur_start, last_time>>) ELSE wins
    ELSE LET ok == _ok(rows[i])
             time == rows[i].time
         IN  IF ok
             THEN WindowsScanNoReset(rows, i + 1, wins, TRUE,
                                     IF open THEN cur_start ELSE time, time)
             ELSE IF open
             THEN WindowsScanNoReset(rows, i + 1,
                                     Append(wins, <<cur_start, last_time>>),
                                     TRUE, cur_start, last_time)
             ELSE WindowsScanNoReset(rows, i + 1, wins, FALSE, 0, 0)

_windows_ok_no_reset(rows) == WindowsScanNoReset(rows, 1, <<>>, FALSE, 0, 0)

\* the loop without the append after it: a window still open is lost
_windows_ok_no_tail(rows) ==
    LET w == WindowsScan(rows, 1, <<>>, FALSE, 0, 0)
    IN  IF rows # <<>> /\ _ok(rows[Len(rows)])
        THEN SubSeq(w, 1, Len(w) - 1) ELSE w

\* _windows_ok(rows): the list of (start, end)
_windows_ok(rows) == WindowsScan(rows, 1, <<>>, FALSE, 0, 0)

\* ======================================================================
\* fire_danger_watch.py: state file, transport, run_acute
\* ======================================================================

HTTP_RETRIES == 5

\* a key of the state dict: missing, JSON null, or a value
Absent == [tag |-> "absent", v |-> 0]
JsonNull == [tag |-> "null", v |-> 0]
Value(x) == [tag |-> "value", v |-> x]

\* {} : what _load_state returns when the file is missing or unreadable
EmptyState ==
    [acute_armed |-> "absent", acute_event_start_iso |-> Absent,
     daily_sent_date |-> Absent]

_load_state(file) == IF file.parseable THEN file.st ELSE EmptyState

_save_state(st) == [parseable |-> TRUE, st |-> st]

\* st.get("acute_armed", True)
ArmedOf(st) == IF st.acute_armed = "absent" THEN TRUE ELSE st.acute_armed = "true"

\* _post_divera: no access key, or every one of the HTTP_RETRIES attempts
\* failing, gives False; `failures` attempts fail before one succeeds
_post_divera(keySet, failures) == keySet /\ failures < HTTP_RETRIES

\* a snapshot without any value
NoCurrent == [t |-> Null, rh |-> Null, ws |-> Null, wg |-> Null]

\* a snapshot whose null gust stays out of the rule
CurrentValuesNoFallback(cur) ==
    IF IsNull(cur.t) \/ IsNull(cur.rh) \/ IsNull(cur.ws)
    THEN [complete |-> FALSE, t |-> 0, rh |-> 0, ws |-> 0, wg |-> 0]
    ELSE [complete |-> TRUE, t |-> ValOf(cur.t), rh |-> ValOf(cur.rh),
          ws |-> ValOf(cur.ws),
          wg |-> IF IsNull(cur.wg) THEN 0 ELSE ValOf(cur.wg)]

\* the float(...) conversions of the current snapshot
CurrentValues(cur) ==
    IF IsNull(cur.t) \/ IsNull(cur.rh) \/ IsNull(cur.ws)
    THEN [complete |-> FALSE, t |-> 0, rh |-> 0, ws |-> 0, wg |-> 0]
    ELSE [complete |-> TRUE, t |-> ValOf(cur.t), rh |-> ValOf(cur.rh),
          ws |-> ValOf(cur.ws),
          wg |-> IF IsNull(cur.wg) THEN ValOf(cur.ws) ELSE ValOf(cur.wg)]

\* ok_now
OkNow(v) ==
    (v.t > TMAX_C) /\ (v.rh < RH_MIN)
    /\ ((v.ws > WIND_MEAN_KMH) \/ (v.wg > WIND_GUST_KMH))

\* an end that is always one hour after the start
EndIsoOneHour(wins, now_iso) == now_iso + 1

\* end_iso: the end of the first window around now_iso, else one hour later
EndIso(wins, now_iso) ==
    LET around == {i \in 1..Len(wins) : wins[i][1] <= now_iso /\ now_iso <= wins[i][2]}
    IN  IF around = {} THEN now_iso + 1
        ELSE wins[CHOOSE i \in around : \A j \in around : i <= j][2]

\* a branch that sends whenever the rule holds
AcuteBranchAlways(ok_now, armed) ==
    IF ok_now THEN "send" ELSE IF ~armed THEN "rearm" ELSE "idle"

\* the four branches of run_acute after ok_now is known
AcuteBranch(ok_now, armed) ==
    IF ok_now THEN (IF armed THEN "send" ELSE "hold")
    ELSE (IF ~armed THEN "rearm" ELSE "idle")

\* a send that leaves the machine armed
AfterSendStillArmed(st, now_iso) ==
    [st EXCEPT !.acute_event_start_iso = Value(now_iso)]

\* st after a delivered alert
AfterSend(st, now_iso) ==
    [st EXCEPT !.acute_armed = "false", !.acute_event_start_iso = Value(now_iso)]

\* a re-arm that keeps the event start
AfterClearKeepsStart(st) == [st EXCEPT !.acute_armed = "true"]

\* st after the rule has cleared
AfterClear(st) ==
    [st EXCEPT !.acute_armed = "true", !.acute_event_start_iso = JsonNull]

\* what the forecast of an acute response holds per hour
AcuteSamples ==
    { [t |-> Num(31), rh |-> Num(29), ws |-> Num(26), wg |-> Null],
      [t |-> Num(30), rh |-> Num(29), ws |-> Num(26), wg |-> Num(31)],
      [t |-> Null, rh |-> Num(29), ws |-> Num(26), wg |-> Num(31)] }

\* best_model_response(want_current=True): nothing, data without "current",
\* or data with it
AcuteResponses == {"none", "nocurrent", "full"}

VARIABLES
    fpc,           \* "off" | "idle"
    fireKey,       \* DIVERA_ACCESSKEY_INFO is set
    fireFile,      \* STATE_FILE: [parseable, st]
    polls,         \* invocations of run_acute so far
    lastOk,        \* ok_now of the latest invocation that computed it
    edges,         \* invocations with ok_now true after false, machine armed
    trues,         \* invocations with ok_now true
    emitted,       \* invocations that returned 1
    missed,        \* some invocation in branch "send" returned 0
    acute          \* the latest invocation

fireVars == <<fpc, fireKey, fireFile, polls, lastOk, edges, trues, emitted,
              missed, acute>>

VARIABLES
    wpc,           \* "off" | "data" | "rows" | "done" | "current" | "now"
    wData,         \* the hourly block handed to _timeseries
    wRows,         \* what _timeseries returned
    wWins,         \* what _windows_ok returned
    wCur,          \* data["current"] handed to run_acute
    wNow           \* the values run_acute made of it

winVars == <<wpc, wData, wRows, wWins, wCur, wNow>>

\* ======================================================================
\* fire_danger_watch.py: run_daily
\* ======================================================================

\* Local time is counted in hours; hour h of day d is 24 * d + h.
DayOf(time) == time \div 24
HourOf(time) == time % 24

\* datetime.fromisoformat of an hourly stamp "YYYY-MM-DDTHH:00"
FromIso(time) == [day |-> DayOf(time), hour |-> HourOf(time), minute |-> 0]

\* dt.replace(minute=0)
ReplaceMinute0(dt) == [dt EXCEPT !.minute = 0]

\* dt.strftime("%d.%m.%Y %H:00 Uhr"), as the time of day it names
StrfHour00(dt) == [day |-> dt.day, hour |-> dt.hour, minute |-> 0]

\* _fmt_de(ts_iso), as the time of day it names
_fmt_de(time) ==
    LET dt == FromIso(time)
    IN  [day |-> dt.day, hour |-> dt.hour, minute |-> dt.minute]

\* end_dt_str of run_daily
EndDtStr(last_end_iso) == StrfHour00(ReplaceMinute0(FromIso(last_end_iso)))

\* an hour on which the rule fails
CalmSample == [t |-> Num(30), rh |-> Num(29), ws |-> Num(26), wg |-> Num(31)]

\* where in the day the varied hours begin
DayStretches == {0, 14, 24 - MaxDayHours}

\* The hourly block for one date: 24 entries, calm outside the stretch.
DayData(from, q, short) ==
    [samples |-> [i \in 1..24 |->
                    IF i > from /\ i <= from + Len(q) THEN q[i - from]
                    ELSE CalmSample],
     short |-> short]

\* rows of _timeseries stamped with the date the response was asked for
RECURSIVE OnDate(_, _)
OnDate(rows, day) ==
    IF rows = <<>> THEN <<>>
    ELSE <<[Head(rows) EXCEPT !.time = 24 * day + Head(rows).time]>>
         \o OnDate(Tail(rows), day)

\* _timeseries_today: the rows whose stamp starts with today's date
RECURSIVE RowsOfDay(_, _)
RowsOfDay(rows, today) ==
    IF rows = <<>> THEN <<>>
    ELSE IF DayOf(Head(rows).time) = today
         THEN <<Head(rows)>> \o RowsOfDay(Tail(rows), today)
         ELSE RowsOfDay(Tail(rows), today)

\* the hours of the day that vary
DayBlocks == UNION {[1..n -> AcuteSamples] : n \in 0..MaxDayHours}

\* a run that marks the day although nothing was delivered
DailyMarksAlways(st, today_str, sent) ==
    [st EXCEPT !.daily_sent_date = Value(today_str)]

\* st["daily_sent_date"] = today_str, under `if sent`
DailyMarks(st, today_str, sent) ==
    IF sent THEN [st EXCEPT !.daily_sent_date = Value(today_str)] ELSE st

\* a check against the date that never matches
AlreadySentNever(st, today_str) == FALSE

\* st.get("daily_sent_date") == today_str
AlreadySent(st, today_str) == st.daily_sent_date = Value(today_str)

VARIABLES
    clockDay,      \* date.today()
    delivered,     \* per date: invocations of run_daily that returned 1
    daily          \* the latest invocation of run_daily

dailyVars == <<clockDay, delivered, daily>>

\* ======================================================================
\* the HTTP helpers of the four scripts
\* ======================================================================

\* loop: the helper has a `for attempt in range(1, HTTP_RETRIES + 1)`;
\* backoff: what it sleeps between attempts; onFail: what the caller gets
\* after the final failed attempt.
DwdTransports ==
    { [script |-> "dwd2divera", name |-> "_get_json_with_retries", kind |-> "GET",
       loop |-> TRUE, backoff |-> "exp", onFail |-> "None"],
      [script |-> "dwd2divera", name |-> "_get_text_with_retries", kind |-> "GET",
       loop |-> TRUE, backoff |-> "exp", onFail |-> "None"],
      [script |-> "dwd2divera", name |-> "post_to_divera", kind |-> "POST",
       loop |-> FALSE, backoff |-> "none", onFail |-> "raised"] }

AlarmTransports ==
    { [script |-> "alarm_broadcast", name |-> "_jget", kind |-> "GET",
       loop |-> TRUE, backoff |-> "exp", onFail |-> "None"],
      [script |-> "alarm_broadcast", name |-> "_jpost", kind |-> "POST",
       loop |-> TRUE, backoff |-> "exp", onFail |-> "False"],
      [script |-> "alarm_broadcast", name |-> "send_telegram", kind |-> "POST",
       loop |-> TRUE, backoff |-> "exp", onFail |-> "False"] }

FireTransports ==
    { [script |-> "fire_danger_watch", name |-> "fetch_forecast", kind |-> "GET",
       loop |-> TRUE, backoff |-> "linear", onFail |-> "None"],
      [script |-> "fire_danger_watch", name |-> "_post_divera", kind |-> "POST",
       loop |-> TRUE, backoff |-> "linear", onFail |-> "False"] }

PegelTransports ==
    { [script |-> "pegel_watch", name |-> "_jget", kind |-> "GET",
       loop |-> TRUE, backoff |-> "exp", onFail |-> "None"],
      [script |-> "pegel_watch", name |-> "_get_text", kind |-> "GET",
       loop |-> TRUE, backoff |-> "exp", onFail |-> "None"],
      [script |-> "pegel_watch", name |-> "_post_divera", kind |-> "POST",
       loop |-> TRUE, backoff |-> "exp", onFail |-> "False"] }

Transports == DwdTransports \cup AlarmTransports \cup FireTransports \cup PegelTransports

\* Sleeps are counted in half seconds.
\* (2 ** (attempt - 1)) + random.uniform(0, 0.5), the jitter at either end
ExpBackoff(attempt, jitter) == 2 * (2 ^ (attempt - 1)) + jitter

\* 1.5 * attempt
LinearBackoff(attempt) == 3 * attempt

\* a sleep after the final failed attempt as well
IsFinalNever(tr, attempt, n) == FALSE

\* `if attempt == HTTP_RETRIES`, or no loop at all
IsFinal(tr, attempt, n) == ~tr.loop \/ attempt = n

\* what one HTTP call can come to: a good response, an error status
\* (raise_for_status, or status_code >= 300 on a POST), or an exception
CallOutcomes == {"ok", "status", "exception"}

VARIABLES
    tpc,           \* "off" | "run" | "done"
    tr,            \* the helper that is running
    tN,            \* HTTP_RETRIES
    attempt,       \* the attempt about to be made
    calls,         \* HTTP calls made
    failed,        \* calls that failed
    sleeps,        \* the sleeps so far, in half seconds
    tResult        \* "pending" | "value" | "True" | "None" | "False" | "raised"

transportVars == <<tpc, tr, tN, attempt, calls, failed, sleeps, tResult>>

\* ======================================================================
\* dwd2divera.py: the Warnlagebericht and its cache
\* ======================================================================

WARNLAGE_TTL_SECONDS == 12 * 3600

\* A page is a sequence of pieces: "Stand1", "Stand2" are issue lines
\* ("Stand: 05.10.2025 07:30 Uhr"), "H1" is the <h1> with WARNLAGEBERICHT,
\* "H2" a further heading, "Entw" the words "Entwicklung der WETTER- und
\* WARNLAGE", "a" and "b" running text, "Tag" markup without text.
IssueLines == {"Stand1", "Stand2"}
HeadingTags == {"H1", "H2"}

Pages ==
    { <<>>,
      <<"H1", "Stand1", "Entw", "a">>,
      <<"H1", "Stand1", "Entw", "b">>,
      <<"H1", "Stand2", "Entw", "a">>,
      <<"H1", "Entw", "a">>,
      <<"H1", "Entw", "Tag", "b">>,
      <<"H1", "Stand1", "Entw", "H2", "a">>,
      <<"Stand1", "H1">>,
      <<"H1", "Tag">> }

\* _html_to_text: tags removed; the words of a heading remain
RECURSIVE _html_to_text(_)
_html_to_text(segment) ==
    IF segment = <<>> THEN <<>>
    ELSE IF Head(segment) = "Tag" THEN _html_to_text(Tail(segment))
    ELSE <<Head(segment)>> \o _html_to_text(Tail(segment))

\* index of the first piece of the page that is in S, 0 if none
FirstIn(page, S) ==
    IF \E i \in 1..Len(page) : page[i] \in S
    THEN CHOOSE i \in 1..Len(page) :
            page[i] \in S /\ \A j \in 1..(i - 1) : page[j] \notin S
    ELSE 0

\* _extract_issue_str: the first issue line, "none" for None
_extract_issue_str(html) ==
    IF FirstIn(html, IssueLines) = 0 THEN "none"
    ELSE html[FirstIn(html, IssueLines)]

\* _extract_entwicklung_segment: [found, text]; the text from the words
\* "Entwicklung der ..." up to the next heading
_extract_entwicklung_segment(html) ==
    LET start == FirstIn(html, {"Entw"})
        tail == SubSeq(html, start + 1, Len(html))
        stop == FirstIn(tail, HeadingTags)
        segment == IF stop = 0 THEN tail ELSE SubSeq(tail, 1, stop - 1)
    IN  IF start = 0 THEN [found |-> FALSE, text |-> <<>>]
        ELSE [found |-> TRUE, text |-> _html_to_text(segment)]

\* _extract_full_text: the text after the <h1>, or of the whole page
_extract_full_text(html) ==
    LET h1 == FirstIn(html, {"H1"})
        tail == IF h1 = 0 THEN html ELSE SubSeq(html, h1 + 1, Len(html))
    IN  _html_to_text(tail)

\* chosen_text = (entwicklung or fulltext or "").strip()
ChosenText(html) ==
    LET entwicklung == _extract_entwicklung_segment(html)
    IN  IF entwicklung.found /\ entwicklung.text # <<>> THEN entwicklung.text
        ELSE _extract_full_text(html)

\* hashlib.sha256(...).hexdigest()
Sha256(text) == [sha256 |-> text]

\* {} : no cache file, or one that does not parse
EmptyCache ==
    [issue |-> "none", text |-> <<>>, hash |-> Sha256(<<>>), saved_ts |-> 0,
     no_marker |-> FALSE]

_load_warnlage_cache(file) == IF file.parseable THEN file.cache ELSE EmptyCache

_save_warnlage_cache(cache) == [parseable |-> TRUE, cache |-> cache]

\* the entry written for a page whose issue line is new
MarkerEntry(issue, chosen_text, now_ts) ==
    [issue |-> issue, text |-> chosen_text, hash |-> Sha256(chosen_text),
     saved_ts |-> now_ts, no_marker |-> FALSE]

\* the entry written for a page without issue line
PlainEntry(chosen_text, now_ts) ==
    [issue |-> "none", text |-> chosen_text, hash |-> Sha256(chosen_text),
     saved_ts |-> now_ts, no_marker |-> TRUE]

\* a test of the stored marker that never matches
MarkerHitNever(cache, issue) == FALSE

\* a test that takes any stored text for a hit
MarkerHitAnyIssue(cache, issue) == cache.text # <<>>

\* cache.get("issue") == issue and cache.get("text")
MarkerHit(cache, issue) == cache.issue = issue /\ cache.text # <<>>

\* a gate that never spares the fetch
FreshWithoutMarkerNever(cache, now_ts) == FALSE

\* a gate that spares the fetch only within the second of the save
FreshWithoutMarkerSameSecond(cache, now_ts) ==
    /\ cache.no_marker /\ cache.saved_ts # 0
    /\ now_ts - cache.saved_ts < 1
    /\ cache.text # <<>>

\* the TTL gate before the fetch
FreshWithoutMarker(cache, now_ts) ==
    /\ cache.no_marker /\ cache.saved_ts # 0
    /\ now_ts - cache.saved_ts < WARNLAGE_TTL_SECONDS
    /\ cache.text # <<>>

\* a reuse test that forgets the age of the entry
HashHitAnyAge(cache, text_hash, now_ts) ==
    cache.no_marker /\ cache.hash = text_hash /\ cache.text # <<>>

\* the reuse test of a page without issue line
HashHit(cache, text_hash, now_ts) ==
    /\ cache.no_marker /\ cache.hash = text_hash /\ cache.text # <<>>
    /\ now_ts - cache.saved_ts < WARNLAGE_TTL_SECONDS

\* None, or a text
NoText == [some |-> FALSE, text |-> <<>>]
SomeText(text) == [some |-> TRUE, text |-> text]

\* a fallback that forgets the stored text
CachedTextNone(cache) == NoText

\* cache.get("text"): None for a missing or empty text is the same to the caller
CachedText(cache) == IF cache.text = <<>> THEN NoText ELSE SomeText(cache.text)

VARIABLES
    cpc,           \* "off" | "idle"
    appendWarnlage,\* APPEND_WARNLAGE
    cacheFile,     \* WARNLAGE_CACHE_FILE: [parseable, cache]
    clock,         \* time.time() at the latest call
    gets,          \* calls so far
    cget,          \* the latest call
    cbefore        \* the cache the latest call loaded

cacheVars == <<cpc, appendWarnlage, cacheFile, clock, gets, cget, cbefore>>

\* ----------------------------------------------------------------------
\* Access keys and the order of the HTTP requests of one run, all scripts
\* ----------------------------------------------------------------------

\* What a run did, in order: "get" and "post" are calls of an HTTP helper
\* (one or more requests), "nokey" is the test of an access key that
\* failed, "skip" a channel left out because it is not configured.
Event(kind, what) == [kind |-> kind, what |-> what]

\* len(DIVERA_ACCESSKEY) of dwd2divera: unset, too short, just long enough
KeyLengths == {0, MinAccessKeyLen - 1, MinAccessKeyLen}

\* post_to_divera of dwd2divera, lines 416-420: the key is tested, then
\* the POST is made
DwdPostEvents(key_len, ric) ==
    IF key_len = 0 \/ key_len < MinAccessKeyLen
    THEN <<Event("nokey", "DIVERA_ACCESSKEY")>>
    ELSE <<Event("post", ric)>>

\* build_divera_payload, line 392: the Warnlagebericht is fetched unless
\* the switch is off or the cache spares the request
PayloadEvents(append, spared) ==
    IF append /\ ~spared THEN <<Event("get", "warnlage")>> ELSE <<>>

\* main of dwd2divera for the warnings ws (TRUE: severe or worse), none of
\* them delivered before
RECURSIVE DwdLoopEvents(_, _, _, _)
DwdLoopEvents(key_len, append, spared, ws) ==
    IF ws = <<>> THEN <<>>
    ELSE PayloadEvents(append, spared) \o DwdPostEvents(key_len, RIC_INFO)
         \o (IF Head(ws)
             THEN PayloadEvents(append, spared)
                  \o DwdPostEvents(key_len, RIC_EINSATZ)
             ELSE <<>>)
         \o DwdLoopEvents(key_len, append, spared, Tail(ws))

DwdEvents(key_len, append, spared, ws) ==
    <<Event("get", "wfs")>> \o DwdLoopEvents(key_len, append, spared, ws)

\* main of alarm_broadcast, lines 191-228; fresh: data arrived and its key
\* is not in the file
AlarmEvents(cfg, fresh) ==
    IF ~cfg.central THEN <<Event("nokey", "DIVERA_ACCESSKEY_CENTRAL")>>
    ELSE <<Event("get", "last-alarm")>>
         \o (IF ~fresh THEN <<>>
             ELSE (IF cfg.sub THEN <<Event("post", "sub")>>
                   ELSE <<Event("skip", "sub")>>)
                  \o (IF cfg.tg THEN <<Event("post", "tg")>>
                      ELSE <<Event("skip", "tg")>>))

\* _post_divera of fire_danger_watch and pegel_watch: the key is tested,
\* then the POST is made
PostOrNoKey(key_set, key_name, what) ==
    IF ~key_set THEN <<Event("nokey", key_name)>> ELSE <<Event("post", what)>>

\* run_daily and run_acute: spared is the return before the forecast is
\* fetched (daily_sent_date is today), due a forecast that calls for a
\* notification
FireEvents(key_set, spared, due) ==
    IF spared THEN <<>>
    ELSE <<Event("get", "forecast")>>
         \o (IF due THEN PostOrNoKey(key_set, "DIVERA_ACCESSKEY_INFO", "fire")
             ELSE <<>>)

\* main of pegel_watch, lines 217-259: both gauges are fetched, a crossing
\* of either mark is posted
PegelEvents(key_set, dus_crossed, neu_crossed) ==
    <<Event("get", "duesseldorf")>>
    \o (IF dus_crossed THEN PostOrNoKey(key_set, "DIVERA_ACCESSKEY_SUB", "dus")
        ELSE <<>>)
    \o <<Event("get", "neubrueck")>>
    \o (IF neu_crossed THEN PostOrNoKey(key_set, "DIVERA_ACCESSKEY_SUB", "neu")
        ELSE <<>>)

VARIABLES
    kpc,           \* "off" | "idle"
    kcfg,          \* the access keys in the environment of the scripts
    krun           \* the latest run: its script, keys and events

keyVars == <<kpc, kcfg, krun>>

\* DIVERA_ACCESSKEY (its length), DIVERA_ACCESSKEY_CENTRAL, the keys of the
\* two channels of alarm_broadcast, DIVERA_ACCESSKEY_INFO of
\* fire_danger_watch, DIVERA_ACCESSKEY_SUB of pegel_watch
KeyConfigs ==
    [dwd : KeyLengths, central : BOOLEAN, sub : BOOLEAN, tg : BOOLEAN,
     info : BOOLEAN, pegel : BOOLEAN]

NoKeyRun ==
    [script |-> "none", mandatory |-> TRUE, optional |-> {}, events |-> <<>>]

InitKeysWith(p0, cfgs) == kpc = p0 /\ kcfg \in cfgs /\ krun = NoKeyRun

InitKeys == InitKeysWith("idle", KeyConfigs)

\* ----------------------------------------------------------------------
\* The body of a notification, all scripts
\* ----------------------------------------------------------------------

\* A string is followed by its length in characters.
\* s[:n]: the first n characters, the whole string when it is shorter
Slice(len, n) == IF len <= n THEN len ELSE n

\* a body that passes title and text on as they are
NewsBodyUnclamped(api, title, text) == [api |-> api, title |-> title, text |-> text]

\* {"title": title[:120], "text": text[:8000], ...}: the body that
\* build_divera_payload, create_divera_news, _post_divera of
\* fire_danger_watch and build_news_payload of pegel_watch make
NewsBody(api, title, text) ==
    [api |-> api, title |-> Slice(title, 120), text |-> Slice(text, 8000)]

\* send_telegram: {"chat_id": ..., "text": text, ...}, no title
TelegramBody(text) == [api |-> "telegram", title |-> 0, text |-> text]

\* lengths of the title and of the text before the body is made
TitleLengths == {0, 1, 119, 120, 121, 500}
TextLengths == {0, 1, 7999, 8000, 8001, 20000}

VARIABLES
    ppc,           \* "off" | "idle"
    pbody          \* the latest body: which script made it, from what

payVars == <<ppc, pbody>>

NoBody ==
    [script |-> "none", title_in |-> 0, text_in |-> 0,
     body |-> [api |-> "none", title |-> 0, text |-> 0]]

InitPayloadWith(p0) == ppc = p0 /\ pbody = NoBody

InitPayload == InitPayloadWith("idle")

\* what each script leaves alone: the other scripts' state
VARIABLES
    gpc,           \* "off" | "idle"
    pegelKey,      \* DIVERA_ACCESSKEY_SUB is set
    pegelState,    \* pegel_seen.json: the above flag of each gauge
    gRuns,         \* invocations so far
    gRun           \* history: what the latest invocation read and did

pegelVars == <<gpc, pegelKey, pegelState, gRuns, gRun>>

VARIABLES
    lpc,           \* "off" | "run" | "done"
    lTr,           \* the HTTP helper whose requests fail
    lAttempt,      \* the attempt about to be made
    lLine          \* the line the latest failed attempt printed, if any

logVars == <<lpc, lTr, lAttempt, lLine>>

restVars == <<pegelVars, logVars>>

logOthers == <<pegelVars, payVars, keyVars, cacheVars, dwdVars, alarmVars, winVars,
               fireVars, dailyVars, transportVars>>
pegelOthers == <<logVars, payVars, keyVars, cacheVars, dwdVars, alarmVars, winVars, fireVars,
                 dailyVars, transportVars>>
keyOthers == <<restVars, payVars, dwdVars, alarmVars, winVars, fireVars, dailyVars, transportVars,
               cacheVars>>
payOthers == <<restVars, keyVars, dwdVars, alarmVars, winVars, fireVars, dailyVars, transportVars,
               cacheVars>>
dwdOthers == <<restVars, payVars, keyVars, cacheVars, alarmVars, winVars, fireVars, dailyVars, transportVars>>
alarmOthers == <<restVars, payVars, keyVars, cacheVars, dwdVars, winVars, fireVars, dailyVars, transportVars>>
winOthers == <<restVars, payVars, keyVars, cacheVars, dwdVars, alarmVars, fireVars, dailyVars, transportVars>>
fireOthers == <<restVars, payVars, keyVars, cacheVars, dwdVars, alarmVars, winVars, dailyVars, transportVars>>
transportOthers == <<restVars, payVars, keyVars, cacheVars, dwdVars, alarmVars, winVars, fireVars, dailyVars>>
cacheOthers == <<restVars, payVars, keyVars, dwdVars, alarmVars, winVars, fireVars, dailyVars, transportVars>>
dailyOthers == <<restVars, payVars, keyVars, cacheVars, dwdVars, alarmVars, winVars, transportVars, fpc, fireKey, polls, lastOk, edges,
                 trues, emitted, missed, acute>>

\* a pass without POST to the Einsatz channel
NoEinsatzPass == [severity |-> "", einsatz |-> FALSE]

\* the result of a POST that is not made
NoResult == [raised |-> FALSE, status |-> 200]

ZeroCounts == [total |-> 0, info |-> 0, einsatz |-> 0]

NoRun ==
    [status |-> "none", routed |-> {}, attempted |-> {}, multi |-> {},
     succeeded |-> {}]

Summary(p, how) ==
    [status |-> how, routed |-> routed[p], attempted |-> attempted[p],
     multi |-> multi[p], succeeded |-> succeeded[p]]

InitDwdWith(pcs) ==
    /\ seenFile \in {save_seen(K) : K \in SUBSET Idents}
    /\ pc = pcs
    /\ seen = [p \in Procs |-> {}]
    /\ new_seen = [p \in Procs |-> {}]
    /\ remaining = [p \in Procs |-> 0]
    /\ counts = [p \in Procs |-> ZeroCounts]
    /\ runsStarted = 0
    /\ fetched = [p \in Procs |-> "none"]
    /\ loaded = [p \in Procs |-> {}]
    /\ routed = [p \in Procs |-> {}]
    /\ attempted = [p \in Procs |-> {}]
    /\ multi = [p \in Procs |-> {}]
    /\ succeeded = [p \in Procs |-> {}]
    /\ posted = [p \in Procs |-> [info |-> 0, einsatz |-> 0]]
    /\ prev = NoRun
    /\ deliveredOnce = {}
    /\ deliveredAgain = {}
    /\ lastPass = NoEinsatzPass

\* The file a first run can find: absent, or left by the earlier revision of
\* the script, whose keys were bare identities.  One invocation at a time.
InitDwd == InitDwdWith([p \in Procs |-> IF p = "p1" THEN "ready" ELSE "off"])

\* Two invocations started close together on the same file (a cron run and
\* a manual one), or one invocation at a time.
InitDwdRace == InitDwd \/ InitDwdWith([p \in Procs |-> "ready"])

\* a fetch that hands on records although the request failed
fetch_dwd_warnings_despite_failure(ok, n) == n

\* fetch_dwd_warnings: the number of warnings it returns; `if data is None:
\* return []`
fetch_dwd_warnings(ok, n) == IF ok THEN n ELSE 0

\* main, lines 438-444: load the file, fetch the warnings (a failed fetch
\* is an empty list).
StartRun(p) ==
    /\ UNCHANGED dwdOthers
    /\ pc[p] \in {"ready", "done", "crashed", "aborted"}
    /\ runsStarted < MaxRuns
    /\ runsStarted' = runsStarted + 1
    /\ \E ok \in BOOLEAN, n \in 0..MaxWarnings :
          /\ fetched' = [fetched EXCEPT ![p] = IF ok THEN "ok" ELSE "failed"]
          /\ remaining' = [remaining EXCEPT ![p] = fetch_dwd_warnings(ok, n)]
    /\ seen' = [seen EXCEPT ![p] = load_seen(seenFile)]
    /\ new_seen' = [new_seen EXCEPT ![p] = load_seen(seenFile)]
    /\ loaded' = [loaded EXCEPT ![p] = seenFile.keys]
    /\ counts' = [counts EXCEPT ![p] = ZeroCounts]
    /\ routed' = [routed EXCEPT ![p] = {}]
    /\ attempted' = [attempted EXCEPT ![p] = {}]
    /\ multi' = [multi EXCEPT ![p] = {}]
    /\ succeeded' = [succeeded EXCEPT ![p] = {}]
    /\ posted' = [posted EXCEPT ![p] = [info |-> 0, einsatz |-> 0]]
    /\ pc' = [pc EXCEPT ![p] = "loop"]
    /\ prev' = IF pc[p] = "ready" THEN prev ELSE Summary(p, pc[p])
    /\ lastPass' = NoEinsatzPass
    /\ UNCHANGED <<seenFile, deliveredOnce, deliveredAgain>>

\* an exception of the first POST that ends the pass
ContinuesAfterOkOnly(outcome) == outcome = "ok"

\* `except Exception as e: print(...)`: the pass goes on after either
\* outcome of a POST
ContinuesAfter(outcome) == outcome \in {"ok", "raise"}

\* build_divera_payload is called outside the try of the POST (lines 454,
\* 468-470): what it raises leaves main
Propagates(raises) == raises

\* the pass reaches build_divera_payload for the Einsatz channel
BuildsEinsatz(p, w, respI) ==
    /\ ~already_info(seen[p], IdentOf(w))
          => ContinuesAfter(post_to_divera(respI))
    /\ is_unwetter_for_ric2(w)
    /\ ~already_einsatz(seen[p], IdentOf(w))

\* where the pass over w ends: "loop" when it runs through; "aborted" when
\* build_divera_payload raises for a channel that is due
PassEnds(p, w, respI, raisesI, raisesE) ==
    IF ~already_info(seen[p], IdentOf(w)) /\ Propagates(raisesI)
    THEN "aborted"
    ELSE IF BuildsEinsatz(p, w, respI) /\ Propagates(raisesE) THEN "aborted"
    ELSE "loop"

\* One pass of the loop over warning w (lines 446-479); respI and respE are
\* what the POST to each channel comes back with, raisesE whether building
\* the Einsatz payload raises.
LoopBody(p, w, respI, respE, raisesE) ==
    LET ident == IdentOf(w)
        key_info == KeyOf(ident, RIC_INFO)
        key_einsatz == KeyOf(ident, RIC_EINSATZ)
        doInfo == ~already_info(seen[p], ident)
        outInfo == post_to_divera(respI)
        ns1 == IF doInfo THEN CommitAfterPost(new_seen[p], key_info, outInfo)
               ELSE new_seen[p]
        okInfo == doInfo /\ outInfo = "ok"
        toEinsatz == is_unwetter_for_ric2(w)
        doEinsatz == BuildsEinsatz(p, w, respI) /\ ~Propagates(raisesE)
        good(resp) == ~resp.raised /\ resp.status < 300
        outEinsatz == post_to_divera(respE)
        ns2 == IF doEinsatz THEN CommitAfterPost(ns1, key_einsatz, outEinsatz)
               ELSE ns1
        okEinsatz == doEinsatz /\ outEinsatz = "ok"
        inc(b) == IF b THEN 1 ELSE 0
        tried == (IF doInfo THEN {key_info} ELSE {})
                 \cup (IF doEinsatz THEN {key_einsatz} ELSE {})
        sent == (IF okInfo THEN {key_info} ELSE {})
                \cup (IF okEinsatz THEN {key_einsatz} ELSE {})
    IN  /\ new_seen' = [new_seen EXCEPT ![p] = ns2]
        /\ counts' = [counts EXCEPT ![p] =
               [total |-> @.total + inc(okInfo) + inc(okEinsatz),
                info |-> @.info + inc(okInfo),
                einsatz |-> @.einsatz + inc(okEinsatz)]]
        /\ routed' = [routed EXCEPT ![p] =
               @ \cup {key_info} \cup (IF toEinsatz THEN {key_einsatz} ELSE {})]
        /\ attempted' = [attempted EXCEPT ![p] = @ \cup tried]
        /\ multi' = [multi EXCEPT ![p] = @ \cup (tried \cap attempted[p])]
        /\ succeeded' = [succeeded EXCEPT ![p] = @ \cup sent]
        /\ posted' = [posted EXCEPT ![p] =
               [info |-> @.info + inc(doInfo /\ good(respI)),
                einsatz |-> @.einsatz + inc(doEinsatz /\ good(respE))]]
        /\ deliveredOnce' = deliveredOnce \cup sent
        /\ deliveredAgain' = deliveredAgain \cup (sent \cap deliveredOnce)
        /\ lastPass' = IF doEinsatz
                       THEN [severity |-> w.severity, einsatz |-> TRUE]
                       ELSE NoEinsatzPass

ProcessWarning(p) ==
    /\ UNCHANGED dwdOthers
    /\ pc[p] = "loop"
    /\ remaining[p] > 0
    /\ \E f \in Features :
        \* what the pass does not read is not varied
        \E raisesI \in
              IF already_info(seen[p], IdentOf(NormalizeFeature(f)))
              THEN {FALSE} ELSE BOOLEAN :
        \E respI \in
              IF already_info(seen[p], IdentOf(NormalizeFeature(f))) \/ raisesI
              THEN {NoResult} ELSE HttpResults :
        \E raisesE \in
              IF raisesI \/ ~BuildsEinsatz(p, NormalizeFeature(f), respI)
              THEN {FALSE} ELSE BOOLEAN :
        \E respE \in
              IF raisesI \/ raisesE \/ ~BuildsEinsatz(p, NormalizeFeature(f), respI)
              THEN {NoResult} ELSE HttpResults :
          LET w == NormalizeFeature(f)
              raisedI == ~already_info(seen[p], IdentOf(w)) /\ Propagates(raisesI)
          IN  IF passes_filters_global(w)
              THEN /\ IF raisedI
                      THEN /\ UNCHANGED <<new_seen, counts, routed, attempted,
                                          multi, succeeded, posted,
                                          deliveredOnce, deliveredAgain>>
                           /\ lastPass' = NoEinsatzPass
                      ELSE LoopBody(p, w, respI, respE, raisesE)
                   /\ pc' = [pc EXCEPT ![p] =
                                PassEnds(p, w, respI, raisesI, raisesE)]
              ELSE /\ UNCHANGED <<new_seen, counts, routed, attempted, multi,
                                  succeeded, posted, deliveredOnce,
                                  deliveredAgain, pc>>
                   /\ lastPass' = NoEinsatzPass
    /\ remaining' = [remaining EXCEPT ![p] = @ - 1]
    /\ UNCHANGED <<seenFile, seen, runsStarted, fetched, loaded, prev>>

\* main, line 481: save_seen(new_seen)
SaveSeen(p) ==
    /\ UNCHANGED dwdOthers
    /\ pc[p] = "loop"
    /\ remaining[p] = 0
    /\ seenFile' = save_seen(new_seen[p])
    /\ pc' = [pc EXCEPT ![p] = "done"]
    /\ UNCHANGED <<seen, new_seen, remaining, counts, runsStarted, fetched,
                   loaded, prev, routed, attempted, multi, succeeded, posted,
                   deliveredOnce, deliveredAgain, lastPass>>

\* The process is killed inside write_text: the file was truncated on open
\* and holds only the first entries of the new list.
CrashInSave(p) ==
    /\ UNCHANGED dwdOthers
    /\ pc[p] = "loop"
    /\ remaining[p] = 0
    /\ \E cut \in 0..Cardinality(new_seen[p]) :
          seenFile' = TruncatedWrite(new_seen[p], cut)
    /\ pc' = [pc EXCEPT ![p] = "crashed"]
    /\ UNCHANGED <<seen, new_seen, remaining, counts, runsStarted, fetched,
                   loaded, prev, routed, attempted, multi, succeeded, posted,
                   deliveredOnce, deliveredAgain, lastPass>>

NextDwd ==
    \E p \in Procs :
        \/ StartRun(p)
        \/ ProcessWarning(p)
        \/ SaveSeen(p)
        \/ CrashInSave(p)

\* ======================================================================
\* alarm_broadcast.py
\* ======================================================================

Channels == {"sub", "tg"}

\* _first(*vals, default): the first truthy value
First2(a, b, default) == IF a # "" THEN a ELSE IF b # "" THEN b ELSE default

\* What /api/last-alarm can return once _jget succeeded.  "" is a missing
\* or empty field.
AlarmData ==
    [id : {"", "7"}, alarm_id : {"", "8"}, keyword : {"F1"}, address : {"X"}]

\* extract_alarm_fields: the fields main reads
extract_alarm_fields(data) ==
    [id |-> First2(data.id, data.alarm_id, ""),
     keyword |-> First2(data.keyword, "", "Einsatz"),
     address |-> First2(data.address, "", ""),
     time_local |-> ""]

\* alarm_id = fields["id"] or f"{keyword}|{time_local}|{address}";
\* key = f"alarm:{alarm_id}"
AlarmKey(fields) ==
    "alarm:" \o (IF fields.id # "" THEN fields.id
                 ELSE fields.keyword \o "|" \o fields.time_local \o "|"
                      \o fields.address)

AlarmKeys == {AlarmKey(extract_alarm_fields(d)) : d \in AlarmData}

\* if sent_sub or sent_tg: seen.add(key); _save_seen(seen)
AlarmCommits(sent_sub, sent_tg) == sent_sub \/ sent_tg

NoAlarmRun ==
    [status |-> "none", key |-> "", loaded |-> {}, attempted |-> {},
     sent |-> {}, owedBefore |-> {}]

InitAlarmWith(p0) ==
    /\ alarmCfg \in [central : BOOLEAN, sub : BOOLEAN, tg : BOOLEAN]
    /\ alarmFile = save_seen({})
    /\ apc = p0
    /\ aSeen = {}
    /\ aRuns = 0
    /\ aRun = NoAlarmRun
    /\ aPrev = NoAlarmRun
    /\ owed = {}

InitAlarm == InitAlarmWith("ready")

\* main, lines 191-235, up to the write of the file.  data is what _jget
\* returned ("none": None or an empty object); okNews and okTg are what the
\* retrying POST of each channel returned.
AlarmMain(fetchOk, data, okNews, okTg) ==
    LET seen0 == load_seen(alarmFile)
        fields == extract_alarm_fields(data)
        key == AlarmKey(fields)
        trySub == alarmCfg.sub
        tryTg == alarmCfg.tg
        sent_sub == trySub /\ okNews
        sent_tg == tryTg /\ okTg
        tried == (IF trySub THEN {"sub"} ELSE {}) \cup (IF tryTg THEN {"tg"} ELSE {})
        sent == (IF sent_sub THEN {"sub"} ELSE {}) \cup (IF sent_tg THEN {"tg"} ELSE {})
        base == [status |-> "returned", key |-> "", loaded |-> alarmFile.keys,
                 attempted |-> {}, sent |-> {},
                 owedBefore |-> {}]
    IN  /\ aPrev' = aRun
        /\ IF ~alarmCfg.central
           THEN \* DIVERA_ACCESSKEY_CENTRAL missing: return before load
                /\ aRun' = [base EXCEPT !.status = "nokey"]
                /\ apc' = "done"
                /\ UNCHANGED <<aSeen, owed>>
           ELSE IF ~fetchOk
           THEN /\ aRun' = [base EXCEPT !.status = "nodata"]
                /\ apc' = "done"
                /\ UNCHANGED <<aSeen, owed>>
           ELSE IF key \in seen0
           THEN /\ aRun' = [base EXCEPT !.status = "known", !.key = key,
                                       !.owedBefore = {c \in Channels : <<key, c>> \in owed}]
                /\ apc' = "done"
                /\ UNCHANGED <<aSeen, owed>>
           ELSE /\ aRun' = [base EXCEPT !.status = "new", !.key = key,
                                       !.attempted = tried, !.sent = sent,
                                       !.owedBefore = {c \in Channels : <<key, c>> \in owed}]
                /\ owed' = (owed \ {<<key, c>> : c \in sent})
                           \cup {<<key, c>> : c \in
                                   IF sent # {} THEN tried \ sent ELSE {}}
                /\ IF AlarmCommits(sent_sub, sent_tg)
                   THEN /\ aSeen' = seen0 \cup {key}
                        /\ apc' = "save"
                   ELSE /\ aSeen' = aSeen
                        /\ apc' = "done"

AlarmRun ==
    /\ UNCHANGED alarmOthers
    /\ apc \in {"ready", "done", "crashed"}
    /\ aRuns < MaxRuns + 1
    /\ aRuns' = aRuns + 1
    /\ \E fetchOk \in BOOLEAN, data \in AlarmData, okNews \in BOOLEAN, okTg \in BOOLEAN :
          AlarmMain(fetchOk, data, okNews, okTg)
    /\ UNCHANGED <<alarmCfg, alarmFile>>

\* _save_seen(seen), line 232
AlarmSave ==
    /\ UNCHANGED alarmOthers
    /\ apc = "save"
    /\ alarmFile' = save_seen(aSeen)
    /\ apc' = "done"
    /\ UNCHANGED <<alarmCfg, aSeen, aRuns, aRun, aPrev, owed>>

\* the process is killed inside write_text
AlarmCrashInSave ==
    /\ UNCHANGED alarmOthers
    /\ apc = "save"
    /\ \E cut \in 0..Cardinality(aSeen) :
          alarmFile' = TruncatedWrite(aSeen, cut)
    /\ apc' = "crashed"
    /\ aRun' = [aRun EXCEPT !.status = "crashed"]
    /\ UNCHANGED <<alarmCfg, aSeen, aRuns, aPrev, owed>>

NextAlarm == AlarmRun \/ AlarmSave \/ AlarmCrashInSave

\* ======================================================================
\* fire_danger_watch.py: Window Evaluation as run_daily and run_acute call it
\* ======================================================================

InitWinWith(p0, inputs, curs) ==
    /\ wpc = p0
    /\ wData \in inputs
    /\ wRows = <<>>
    /\ wWins = <<>>
    /\ wCur \in curs
    /\ wNow = CurrentValues(NoCurrent)

\* either an hourly block for _timeseries, or a snapshot for run_acute
InitWin ==
    \/ InitWinWith("data", HourlyData(RawSamples, MaxHours), {NoCurrent})
    \/ InitWinWith("current", {[samples |-> <<>>, short |-> 0]}, RawSamples)

\* lines 286-295 of run_acute: the floats of the current snapshot
EvalCurrent ==
    /\ UNCHANGED winOthers
    /\ wpc = "current"
    /\ wNow' = CurrentValues(wCur)
    /\ wpc' = "now"
    /\ UNCHANGED <<wData, wRows, wWins, wCur>>

\* rows = _timeseries(data)
BuildRows ==
    /\ UNCHANGED winOthers
    /\ wpc = "data"
    /\ wRows' = _timeseries(wData)
    /\ wpc' = "rows"
    /\ UNCHANGED <<wData, wWins, wCur, wNow>>

\* wins = _windows_ok(rows)
EvalWindows ==
    /\ UNCHANGED winOthers
    /\ wpc = "rows"
    /\ wWins' = _windows_ok(wRows)
    /\ wpc' = "done"
    /\ UNCHANGED <<wData, wRows, wCur, wNow>>

NextWin == BuildRows \/ EvalWindows \/ EvalCurrent

\* ======================================================================
\* fire_danger_watch.py: run_acute, one invocation after the other
\* ======================================================================

NoAcuteRun ==
    [kind |-> "none", ok_now |-> FALSE, armed |-> FALSE, branch |-> "none",
     norows |-> FALSE, attempted |-> FALSE, sent |-> FALSE, wrote |-> FALSE,
     wins |-> <<>>, von |-> 0, bis |-> 0]

InitFireWith(p0, keys) ==
    /\ fpc = p0
    /\ fireKey \in keys
    /\ fireFile = _save_state(EmptyState)
    /\ polls = 0
    /\ lastOk = FALSE
    /\ edges = 0
    /\ trues = 0
    /\ emitted = 0
    /\ missed = FALSE
    /\ acute = NoAcuteRun

InitFire == InitFireWith("idle", BOOLEAN)

\* an early return that re-arms on its way out
AcuteReturnsEarlyRearms(kind, armed) ==
    /\ acute' = [NoAcuteRun EXCEPT !.kind = kind, !.armed = armed]
    /\ fireFile' = _save_state(AfterClear(_load_state(fireFile)))
    /\ UNCHANGED <<lastOk, edges, trues, emitted, missed>>

\* an invocation that returns before ok_now is computed
AcuteReturnsEarly(kind, armed) ==
    /\ acute' = [NoAcuteRun EXCEPT !.kind = kind, !.armed = armed]
    /\ UNCHANGED <<fireFile, lastOk, edges, trues, emitted, missed>>

\* the books after an invocation that computed ok_now
AcuteCounts(ok_now, armed, branch, returned) ==
    /\ lastOk' = ok_now
    /\ trues' = IF ok_now THEN trues + 1 ELSE trues
    /\ edges' = IF ok_now /\ ~lastOk /\ armed THEN edges + 1 ELSE edges
    /\ emitted' = emitted + returned
    /\ missed' = (missed \/ (branch = "send" /\ returned = 0))

\* branch "send": rows, windows, end of the event, _post_divera, save
AcuteSend(st, ok_now, armed, now_iso, rows, wins, sent) ==
    LET end_iso == EndIso(wins, now_iso)
        run == [NoAcuteRun EXCEPT !.kind = "eval", !.ok_now = ok_now,
                                  !.armed = armed, !.branch = "send"]
    IN  IF rows = <<>>
        THEN /\ acute' = [run EXCEPT !.norows = TRUE]
             /\ AcuteCounts(ok_now, armed, "send", 0)
             /\ UNCHANGED fireFile
        ELSE IF sent
        THEN /\ fireFile' = _save_state(AfterSend(st, now_iso))
             /\ acute' = [run EXCEPT !.attempted = TRUE, !.sent = TRUE,
                                     !.wrote = TRUE, !.wins = wins,
                                     !.von = now_iso, !.bis = end_iso]
             /\ AcuteCounts(ok_now, armed, "send", 1)
        ELSE /\ acute' = [run EXCEPT !.attempted = fireKey, !.wins = wins,
                                     !.von = now_iso, !.bis = end_iso]
             /\ AcuteCounts(ok_now, armed, "send", 0)
             /\ UNCHANGED fireFile

\* the three branches that send nothing
AcuteQuiet(st, ok_now, armed, branch) ==
    LET run == [NoAcuteRun EXCEPT !.kind = "eval", !.ok_now = ok_now,
                                  !.armed = armed, !.branch = branch]
    IN  /\ AcuteCounts(ok_now, armed, branch, 0)
        /\ IF branch = "rearm"
           THEN /\ fireFile' = _save_state(AfterClear(st))
                /\ acute' = [run EXCEPT !.wrote = TRUE]
           ELSE /\ acute' = run
                /\ UNCHANGED fireFile

\* run_acute()
RunAcute ==
    /\ UNCHANGED fireOthers
    /\ fpc = "idle"
    /\ polls < MaxPolls
    /\ polls' = polls + 1
    /\ UNCHANGED <<fpc, fireKey>>
    /\ \E resp \in AcuteResponses, cur \in RawSamples :
         LET st == _load_state(fireFile)
             armed == ArmedOf(st)
             v == CurrentValues(cur)
             ok_now == OkNow(v)
             branch == AcuteBranch(ok_now, armed)
         IN  IF resp # "full" THEN AcuteReturnsEarly("nodata", armed)
             ELSE IF ~v.complete THEN AcuteReturnsEarly("incomplete", armed)
             ELSE IF branch = "send"
             THEN \E hourly \in HourlyData(AcuteSamples, MaxAhead) :
                  \E rows \in {_timeseries(hourly)} :
                  \E wins \in {_windows_ok(rows)} :
                  \E now_iso \in 0..MaxAhead,
                     sent \in {_post_divera(fireKey, f) : f \in 0..HTTP_RETRIES} :
                       AcuteSend(st, ok_now, armed, now_iso, rows, wins, sent)
             ELSE AcuteQuiet(st, ok_now, armed, branch)

NextFire == RunAcute

\* ======================================================================
\* fire_danger_watch.py: run_daily, invoked again and again
\* ======================================================================

Days == 0..MaxDays

NoDailyRun ==
    [kind |-> "none", today |-> 0, attempted |-> FALSE, sent |-> FALSE,
     wrote |-> FALSE, hits |-> {}, wins |-> <<>>, von |-> FromIso(0),
     bis |-> FromIso(0)]

\* the hours of the rows on which the rule holds
HitHours(rows) == {rows[i].time : i \in {j \in 1..Len(rows) : _ok(rows[j])}}

InitDailyVars ==
    /\ clockDay = 0
    /\ delivered = [d \in Days |-> 0]
    /\ daily = NoDailyRun

\* what run_acute, sharing STATE_FILE, may have written before
AcuteLeftStates == {EmptyState, AfterSend(EmptyState, 0)}

InitDaily ==
    /\ fpc = "daily"
    /\ fireKey \in BOOLEAN
    /\ fireFile \in {_save_state(st) : st \in AcuteLeftStates}
    /\ polls = 0
    /\ lastOk = FALSE
    /\ edges = 0
    /\ trues = 0
    /\ emitted = 0
    /\ missed = FALSE
    /\ acute = NoAcuteRun
    /\ InitDailyVars

\* an invocation that returns before _post_divera
DailyReturnsEarly(kind, today_str, rows) ==
    /\ daily' = [NoDailyRun EXCEPT !.kind = kind, !.today = today_str,
                                   !.hits = HitHours(rows)]
    /\ UNCHANGED <<fireFile, delivered>>

\* from the windows to the end of run_daily
DailySend(st, today_str, rows, wins, sent) ==
    LET first_start_iso == wins[1][1]
        last_end_iso == wins[Len(wins)][2]
        after == DailyMarks(st, today_str, sent)
    IN  /\ daily' = [kind |-> "post", today |-> today_str,
                     attempted |-> fireKey, sent |-> sent,
                     wrote |-> (after # st \/ sent), hits |-> HitHours(rows),
                     wins |-> wins,
                     von |-> _fmt_de(first_start_iso),
                     bis |-> EndDtStr(last_end_iso)]
        /\ fireFile' = IF after # st \/ sent THEN _save_state(after) ELSE fireFile
        /\ delivered' = IF sent
                        THEN [delivered EXCEPT ![today_str] = @ + 1]
                        ELSE delivered

\* run_daily(); the date may change between its two readings of the clock,
\* and _post_divera returns what its attempts allow
RunDaily ==
    /\ UNCHANGED dailyOthers
    /\ fpc = "daily"
    /\ delivered[clockDay] < MaxPolls
    /\ UNCHANGED clockDay
    /\ LET st == _load_state(fireFile)
           today_str == clockDay
       IN  IF AlreadySent(st, today_str)
           THEN DailyReturnsEarly("already", today_str, <<>>)
           ELSE \E resp \in {"none", "full"} :
                  IF resp = "none"
                  THEN DailyReturnsEarly("nodata", today_str, <<>>)
                  ELSE \E from \in DayStretches, block \in DayBlocks :
                       \E stamped \in {OnDate(_timeseries(DayData(from, block, 0)),
                                              today_str)} :
                       \E today \in {today_str, today_str + 1} :
                       \E rows \in {RowsOfDay(stamped, today)} :
                       \E wins \in {_windows_ok(rows)} :
                         IF rows = <<>>
                         THEN DailyReturnsEarly("norows", today_str, rows)
                         ELSE IF wins = <<>>
                         THEN DailyReturnsEarly("nowins", today_str, rows)
                         ELSE \E sent \in {_post_divera(fireKey, f) :
                                             f \in 0..HTTP_RETRIES} :
                                DailySend(st, today_str, rows, wins, sent)

\* midnight passes
NextDay ==
    /\ UNCHANGED dailyOthers
    /\ fpc = "daily"
    /\ clockDay < MaxDays
    /\ clockDay' = clockDay + 1
    /\ UNCHANGED <<fireFile, delivered, daily>>

NextDaily == RunDaily \/ NextDay

\* ======================================================================
\* one call of an HTTP helper, attempt by attempt
\* ======================================================================

InitTransportWith(p0, helpers, tries) ==
    /\ tpc = p0
    /\ tr \in helpers
    /\ tN \in tries
    /\ attempt = 1
    /\ calls = 0
    /\ failed = 0
    /\ sleeps = <<>>
    /\ tResult = "pending"

InitTransport == InitTransportWith("run", Transports, 1..MaxTries)

\* one pass of the loop body (the whole body of post_to_divera): the call,
\* and on failure either the final result or the sleep before the next pass;
\* a loop that runs out of attempts falls off the end of the function
Attempt ==
    /\ UNCHANGED transportOthers
    /\ tpc = "run"
    /\ calls' = calls + 1
    /\ UNCHANGED <<tr, tN>>
    /\ \E outcome \in CallOutcomes, jitter \in {0, 1} :
         IF outcome = "ok"
         THEN /\ tResult' = IF tr.kind = "GET" \/ ~tr.loop THEN "value" ELSE "True"
              /\ tpc' = "done"
              /\ UNCHANGED <<attempt, failed, sleeps>>
         ELSE /\ failed' = failed + 1
              /\ IF IsFinal(tr, attempt, tN)
                 THEN /\ tResult' = tr.onFail
                      /\ tpc' = "done"
                      /\ UNCHANGED <<attempt, sleeps>>
                 ELSE /\ sleeps' = Append(sleeps,
                                     IF tr.backoff = "exp"
                                     THEN ExpBackoff(attempt, jitter)
                                     ELSE LinearBackoff(attempt))
                      /\ attempt' = attempt + 1
                      /\ tpc' = IF attempt < tN THEN "run" ELSE "done"
                      /\ tResult' = IF attempt < tN THEN "pending" ELSE "None"

NextTransport == Attempt

\* ======================================================================
\* dwd2divera.py: fetch_warnlagebericht_nrw_cached, called again and again
\* ======================================================================

NoGet ==
    [path |-> "none", fetched |-> FALSE, requested |-> FALSE, issue |-> "none",
     chosen |-> <<>>, returned |-> NoText, wrote |-> FALSE, now_ts |-> 0]

InitCacheWith(p0, flags) ==
    /\ cpc = p0
    /\ appendWarnlage \in flags
    /\ cacheFile = _save_warnlage_cache(EmptyCache)
    /\ clock = 1
    /\ gets = 0
    /\ cget = NoGet
    /\ cbefore = EmptyCache

InitCache == InitCacheWith("idle", BOOLEAN)

\* a return that leaves the cache file alone
CacheReturns(path, now_ts, requested, gotPage, issue, chosen, text) ==
    /\ cget' = [path |-> path, fetched |-> gotPage, requested |-> requested,
                issue |-> issue, chosen |-> chosen, returned |-> text,
                wrote |-> FALSE, now_ts |-> now_ts]
    /\ UNCHANGED cacheFile

\* a return after _save_warnlage_cache(entry)
CacheReplaces(path, now_ts, issue, entry) ==
    /\ cget' = [path |-> path, fetched |-> TRUE, requested |-> TRUE,
                issue |-> issue, chosen |-> entry.text,
                returned |-> SomeText(entry.text), wrote |-> TRUE,
                now_ts |-> now_ts]
    /\ cacheFile' = _save_warnlage_cache(entry)

\* the part of the function after a page has arrived
AfterFetch(cache, now_ts, html) ==
    LET issue == _extract_issue_str(html)
        chosen_text == ChosenText(html)
        text_hash == Sha256(chosen_text)
    IN  IF chosen_text = <<>>
        THEN CacheReturns("notext", now_ts, TRUE, TRUE, issue, chosen_text, NoText)
        ELSE IF issue # "none"
        THEN IF MarkerHit(cache, issue)
             THEN CacheReturns("marker_hit", now_ts, TRUE, TRUE, issue, chosen_text,
                               SomeText(cache.text))
             ELSE CacheReplaces("marker_new", now_ts, issue,
                                MarkerEntry(issue, chosen_text, now_ts))
        ELSE IF HashHit(cache, text_hash, now_ts)
             THEN CacheReturns("hash_hit", now_ts, TRUE, TRUE, issue, chosen_text,
                               SomeText(cache.text))
             ELSE CacheReplaces("plain_new", now_ts, issue,
                                PlainEntry(chosen_text, now_ts))

\* fetch_warnlagebericht_nrw_cached(), `elapsed` seconds after the call
\* before; got is what _get_text_with_retries returned
CacheGet ==
    /\ UNCHANGED cacheOthers
    /\ cpc = "idle"
    /\ gets < MaxGets
    /\ gets' = gets + 1
    /\ UNCHANGED <<cpc, appendWarnlage>>
    /\ \E elapsed \in {0, 1, WARNLAGE_TTL_SECONDS - 1, WARNLAGE_TTL_SECONDS} :
         LET now_ts == clock + elapsed
             cache == _load_warnlage_cache(cacheFile)
         IN  /\ clock' = now_ts
             /\ cbefore' = cache
             /\ IF ~appendWarnlage
                THEN CacheReturns("off", now_ts, FALSE, FALSE, "none", <<>>, NoText)
                ELSE IF FreshWithoutMarker(cache, now_ts)
                THEN CacheReturns("ttl", now_ts, FALSE, FALSE, "none", <<>>,
                                  SomeText(cache.text))
                ELSE \E ok \in BOOLEAN, html \in Pages :
                       IF ~ok \/ html = <<>>
                       THEN CacheReturns("fallback", now_ts, TRUE, FALSE, "none",
                                         <<>>, CachedText(cache))
                       ELSE AfterFetch(cache, now_ts, html)

NextCache == CacheGet

\* ======================================================================
\* specifications
\* ======================================================================

\* build_divera_payload of dwd2divera, lines 401-406
BuildDwdPayload ==
    /\ UNCHANGED payOthers
    /\ ppc = "idle" /\ UNCHANGED ppc
    /\ \E title \in TitleLengths, text \in TextLengths :
          pbody' = [script |-> "dwd2divera", title_in |-> title, text_in |-> text,
                    body |-> NewsBody("divera", title, text)]

\* create_divera_news of alarm_broadcast, lines 153-158
BuildAlarmNews ==
    /\ UNCHANGED payOthers
    /\ ppc = "idle" /\ UNCHANGED ppc
    /\ \E title \in TitleLengths, text \in TextLengths :
          pbody' = [script |-> "alarm_broadcast", title_in |-> title, text_in |-> text,
                    body |-> NewsBody("divera", title, text)]

\* send_telegram of alarm_broadcast, lines 168-175
BuildTelegram ==
    /\ UNCHANGED payOthers
    /\ ppc = "idle" /\ UNCHANGED ppc
    /\ \E text \in TextLengths :
          pbody' = [script |-> "alarm_broadcast", title_in |-> 0, text_in |-> text,
                    body |-> TelegramBody(text)]

\* _post_divera of fire_danger_watch, lines 192-196
BuildFireBody ==
    /\ UNCHANGED payOthers
    /\ ppc = "idle" /\ UNCHANGED ppc
    /\ \E title \in TitleLengths, text \in TextLengths :
          pbody' = [script |-> "fire_danger_watch", title_in |-> title, text_in |-> text,
                    body |-> NewsBody("divera", title, text)]

\* build_news_payload of pegel_watch, lines 209-215
BuildPegelPayload ==
    /\ UNCHANGED payOthers
    /\ ppc = "idle" /\ UNCHANGED ppc
    /\ \E title \in TitleLengths, text \in TextLengths :
          pbody' = [script |-> "pegel_watch", title_in |-> title, text_in |-> text,
                    body |-> NewsBody("divera", title, text)]

NextPayload ==
    \/ BuildDwdPayload
    \/ BuildAlarmNews
    \/ BuildTelegram
    \/ BuildFireBody
    \/ BuildPegelPayload

\* one run of each script, with the keys it was configured with
KeysDwd ==
    /\ UNCHANGED keyOthers
    /\ kpc = "idle" /\ UNCHANGED <<kpc, kcfg>>
    /\ \E append \in BOOLEAN, spared \in BOOLEAN, n \in 0..MaxWarnings :
          \E ws \in [1..n -> BOOLEAN] :
             krun' = [script |-> "dwd2divera",
                      mandatory |-> kcfg.dwd >= MinAccessKeyLen,
                      optional |-> {},
                      events |-> DwdEvents(kcfg.dwd, append, spared, ws)]

KeysAlarm ==
    /\ UNCHANGED keyOthers
    /\ kpc = "idle" /\ UNCHANGED <<kpc, kcfg>>
    /\ \E fresh \in BOOLEAN :
          krun' = [script |-> "alarm_broadcast", mandatory |-> kcfg.central,
                   optional |-> {c \in Channels : kcfg[c]},
                   events |-> AlarmEvents(kcfg, fresh)]

KeysFire ==
    /\ UNCHANGED keyOthers
    /\ kpc = "idle" /\ UNCHANGED <<kpc, kcfg>>
    /\ \E spared \in BOOLEAN, due \in BOOLEAN :
          krun' = [script |-> "fire_danger_watch", mandatory |-> kcfg.info,
                   optional |-> {},
                   events |-> FireEvents(kcfg.info, spared, due)]

KeysPegel ==
    /\ UNCHANGED keyOthers
    /\ kpc = "idle" /\ UNCHANGED <<kpc, kcfg>>
    /\ \E dus_crossed \in BOOLEAN, neu_crossed \in BOOLEAN :
          krun' = [script |-> "pegel_watch", mandatory |-> kcfg.pegel,
                   optional |-> {},
                   events |-> PegelEvents(kcfg.pegel, dus_crossed, neu_crossed)]

NextKeys == KeysDwd \/ KeysAlarm \/ KeysFire \/ KeysPegel

\* ======================================================================
\* pegel_watch.py: one invocation after the other
\* ======================================================================

DUS_THRESHOLD_CM == 710
NEU_THRESHOLD_CM == 145

Gauges == {"dus", "neu"}

Threshold(g) == IF g = "dus" THEN DUS_THRESHOLD_CM ELSE NEU_THRESHOLD_CM

\* what fetch_duesseldorf_cm / fetch_neubrueck_cm return: None, or a level
\* below, at or above the threshold
Readings(g) == {Null} \cup {Num(Threshold(g) + d) : d \in {-1, 0, 1}}

\* an above_old that takes a missing flag for a set one
above_old_unless_false(state, g) == state[g] # "false"

\* bool(state.get("dus_above", False))
above_old(state, g) == state[g] = "true"

\* dus_cm >= DUS_THRESHOLD_CM
above_new(g, cm) == cm >= Threshold(g)

\* `if above_new and not above_old`, inside `if cm is not None`
CrossUp(state, g, reading) ==
    /\ ~IsNull(reading)
    /\ above_new(g, ValOf(reading))
    /\ ~above_old(state, g)

\* state["dus_above"] = above_new, inside `if cm is not None`
StoreAbove(state, g, reading) ==
    IF IsNull(reading) THEN state
    ELSE [state EXCEPT ![g] =
             IF above_new(g, ValOf(reading)) THEN "true" ELSE "false"]

NoGaugeRun ==
    [g \in Gauges |-> [reading |-> Null, attempted |-> FALSE, sent |-> FALSE]]

InitPegelWith(p0, keys) ==
    /\ gpc = p0
    /\ pegelKey \in keys
    /\ pegelState = [g \in Gauges |-> "absent"]
    /\ gRuns = 0
    /\ gRun = NoGaugeRun

InitPegel == InitPegelWith("idle", BOOLEAN)

\* main(): both gauges, then _save_state(state); _post_divera is the helper
\* of fire_danger_watch with the other key
PegelMain ==
    /\ UNCHANGED pegelOthers
    /\ gpc = "idle"
    /\ gRuns < MaxPolls
    /\ gRuns' = gRuns + 1
    /\ \E cm \in [Gauges -> UNION {Readings(g) : g \in Gauges}] :
         /\ \A g \in Gauges : cm[g] \in Readings(g)
         /\ \E failures \in [Gauges -> 0..HTTP_RETRIES] :
              /\ \A g \in Gauges :
                    ~CrossUp(pegelState, g, cm[g]) => failures[g] = 0
              /\ gRun' = [g \in Gauges |->
                    [reading |-> cm[g],
                     attempted |-> CrossUp(pegelState, g, cm[g]),
                     sent |-> /\ CrossUp(pegelState, g, cm[g])
                              /\ _post_divera(pegelKey, failures[g])]]
         /\ pegelState' = StoreAbove(StoreAbove(pegelState, "dus", cm["dus"]),
                                     "neu", cm["neu"])
    /\ UNCHANGED <<gpc, pegelKey>>

NextPegel == PegelMain

\* ======================================================================
\* what the four scripts print when a request fails
\* ======================================================================

\* How a request can fail: a response with a status >= 300 and a body; an
\* exception of requests whose text names host, path and query of the URL
\* (ConnectionError: "... Max retries exceeded with url: /api/news?accesskey=
\* ..."); an exception whose text does not (ReadTimeout).
FailureKinds == {"status", "connect", "timeout"}

\* the request URL carries the access key or the bot token
SecretInUrl(h) ==
    \/ h.kind = "POST"
    \/ (h.script = "alarm_broadcast" /\ h.name = "_jget")

\* `raise RuntimeError(f"... {r.status_code}: {r.text[:400]}")`
BodyInError(h) ==
    /\ h.kind = "POST"
    /\ h.script \in {"dwd2divera", "fire_danger_watch", "pegel_watch"}

\* the line prints {e}; the POST helpers of alarm_broadcast print
\* type(e).__name__
PrintsException(h) == ~(h.script = "alarm_broadcast" /\ h.kind = "POST")

\* the line also prints the url argument: "GET {url} failed ..."
PrintsUrlArgument(h) ==
    /\ h.kind = "GET"
    /\ h.script \in {"alarm_broadcast", "pegel_watch"}

\* the url argument is the whole request URL (no params are added to it)
UrlArgumentIsRequestUrl(h) == h.name = "_get_text"

\* the helpers of fire_danger_watch print on the final attempt only
LogsEveryAttempt(h) == h.script # "fire_danger_watch"

\* str(e): raise_for_status gives "<status> <reason> for url: <url>"; the
\* RuntimeError of a POST helper holds the status, and the body where the
\* helper puts it there
ExceptionText(h, kind) ==
    LET secret == IF SecretInUrl(h) THEN {"secret"} ELSE {}
    IN  CASE kind = "status" ->
                 IF h.kind = "GET" THEN {"status", "url"} \cup secret
                 ELSE IF BodyInError(h) THEN {"status", "body"}
                 ELSE {"status"}
          [] kind = "connect" -> {"url"} \cup secret
          [] OTHER -> {"timeout"}

\* what the printed line holds
LogLine(h, kind, final) ==
    (IF PrintsException(h) THEN ExceptionText(h, kind) ELSE {"type"})
    \cup (IF PrintsUrlArgument(h) /\ final
          THEN (IF UrlArgumentIsRequestUrl(h) THEN {"url"} ELSE {"endpoint"})
          ELSE {})

NoLine == [written |-> FALSE, parts |-> {}]

InitLogWith(p0, helpers) ==
    /\ lpc = p0
    /\ lTr \in helpers
    /\ lAttempt = 1
    /\ lLine = NoLine

InitLog == InitLogWith("run", Transports)

\* one failed attempt of the helper and the line it prints; post_to_divera
\* raises and main prints the exception (lines 462-463, 478-479)
LogFailure ==
    /\ UNCHANGED logOthers
    /\ lpc = "run"
    /\ \E kind \in FailureKinds :
         LET final == IsFinal(lTr, lAttempt, HTTP_RETRIES)
         IN  /\ lLine' = IF final \/ LogsEveryAttempt(lTr)
                         THEN [written |-> TRUE,
                               parts |-> LogLine(lTr, kind, final)]
                         ELSE NoLine
             /\ lpc' = IF final THEN "done" ELSE "run"
             /\ lAttempt' = IF final THEN lAttempt ELSE lAttempt + 1
    /\ UNCHANGED lTr

NextLog == LogFailure

vars == <<dwdVars, alarmVars, winVars, fireVars, dailyVars, transportVars, cacheVars,
          keyVars, payVars, restVars>>

OffLog ==
    InitLogWith("off", {CHOOSE h \in Transports : h.name = "_jpost"})

OffPegel == InitPegelWith("off", {FALSE})

OffDwd == InitDwdWith([p \in Procs |-> "off"]) /\ seenFile = save_seen({})
OffAlarm ==
    /\ InitAlarmWith("off")
    /\ alarmCfg = [central |-> FALSE, sub |-> FALSE, tg |-> FALSE]

OffWin == InitWinWith("off", {[samples |-> <<>>, short |-> 0]}, {NoCurrent})
OffTransport ==
    InitTransportWith("off", {CHOOSE h \in Transports : h.name = "_jpost"}, {1})
OffCache == InitCacheWith("off", {TRUE})
OffPayload == InitPayloadWith("off") /\ OffPegel /\ OffLog
OffKeys ==
    InitKeysWith("off", {[dwd |-> 0, central |-> FALSE, sub |-> FALSE, tg |-> FALSE,
                          info |-> FALSE, pegel |-> FALSE]})
    /\ OffPayload
OffFire == InitFireWith("off", {FALSE}) /\ InitDailyVars /\ OffTransport /\ OffCache

\* dwd2divera, one invocation after the other
InitSpecDwd == InitDwd /\ OffAlarm /\ OffWin /\ OffFire /\ OffKeys
SpecDwd == InitSpecDwd /\ [][NextDwd]_vars

\* alarm_broadcast, one invocation after the other
InitSpecAlarm == OffDwd /\ InitAlarm /\ OffWin /\ OffFire /\ OffKeys
SpecAlarm == InitSpecAlarm /\ [][NextAlarm]_vars

\* Window Evaluation over every hourly block
InitSpecWin == OffDwd /\ OffAlarm /\ InitWin /\ OffFire /\ OffKeys
SpecWin == InitSpecWin /\ [][NextWin]_vars

\* the acute mode of fire_danger_watch, polled
InitSpecFire ==
    OffDwd /\ OffAlarm /\ OffWin /\ InitFire /\ InitDailyVars /\ OffTransport
    /\ OffCache /\ OffKeys
SpecFire == InitSpecFire /\ [][NextFire]_vars

\* the daily mode of fire_danger_watch, over the days
InitSpecDaily ==
    OffDwd /\ OffAlarm /\ OffWin /\ InitDaily /\ OffTransport /\ OffCache
    /\ OffKeys
SpecDaily == InitSpecDaily /\ [][NextDaily]_vars

\* every HTTP helper, with every HTTP_RETRIES up to MaxTries
InitSpecTransport ==
    OffDwd /\ OffAlarm /\ OffWin /\ InitFireWith("off", {FALSE})
    /\ InitDailyVars /\ InitTransport /\ OffCache /\ OffKeys
SpecTransport == InitSpecTransport /\ [][NextTransport]_vars

\* the cache of the Warnlagebericht over several calls
InitSpecCache ==
    OffDwd /\ OffAlarm /\ OffWin /\ InitFireWith("off", {FALSE}) /\ InitDailyVars
    /\ OffTransport /\ InitCache /\ OffKeys
SpecCache == InitSpecCache /\ [][NextCache]_vars

\* the order of key tests and HTTP requests in one run of each script
InitSpecKeys == OffDwd /\ OffAlarm /\ OffWin /\ OffFire /\ InitKeys /\ OffPayload
SpecKeys == InitSpecKeys /\ [][NextKeys]_vars

\* the bodies the scripts post, for titles and texts of every length
InitSpecPayload ==
    /\ OffDwd /\ OffAlarm /\ OffWin /\ OffFire
    /\ InitKeysWith("off", {[dwd |-> 0, central |-> FALSE, sub |-> FALSE,
                             tg |-> FALSE, info |-> FALSE, pegel |-> FALSE]})
    /\ InitPayload /\ OffPegel /\ OffLog
SpecPayload == InitSpecPayload /\ [][NextPayload]_vars

\* either script, as the scheduler runs it
\* dwd2divera, invocations that may overlap
InitSpecRace == InitDwdRace /\ OffAlarm /\ OffWin /\ OffFire /\ OffKeys
SpecRace == InitSpecRace /\ [][NextDwd]_vars

\* pegel_watch, one invocation after the other
InitSpecPegel ==
    /\ OffDwd /\ OffAlarm /\ OffWin /\ OffFire
    /\ InitKeysWith("off", {[dwd |-> 0, central |-> FALSE, sub |-> FALSE,
                             tg |-> FALSE, info |-> FALSE, pegel |-> FALSE]})
    /\ InitPayloadWith("off") /\ InitPegel /\ OffLog
SpecPegel == InitSpecPegel /\ [][NextPegel]_vars

\* every HTTP helper with requests that fail
InitSpecLog ==
    /\ OffDwd /\ OffAlarm /\ OffWin /\ OffFire
    /\ InitKeysWith("off", {[dwd |-> 0, central |-> FALSE, sub |-> FALSE,
                             tg |-> FALSE, info |-> FALSE, pegel |-> FALSE]})
    /\ InitPayloadWith("off") /\ OffPegel /\ InitLog
SpecLog == InitSpecLog /\ [][NextLog]_vars

InitSpecDedup == InitSpecDwd \/ InitSpecAlarm
NextDedup == NextDwd \/ NextAlarm
SpecDedup == InitSpecDedup /\ [][NextDedup]_vars
\* ======================================================================
\* properties
\* ======================================================================

\* C1: at most one successful POST per key identity|RIC, over any sequence
\* of non-overlapping runs on one dedup file and for any fetched list, a
\* list that repeats an identity included: while the file is intact, no
\* step delivers a key a second time.
C1_AtMostOncePerKey ==
    [][seenFile.parseable => deliveredAgain' = deliveredAgain]_vars

\* The dispatch of a record to channel k in a run, and the number of POSTs
\* the run made for it.
DwdAttempts(h, k) ==
    IF k \in h.multi THEN 2 ELSE IF k \in h.attempted THEN 1 ELSE 0

DwdNow(p) == Summary(p, pc[p])

\* two consecutive runs that were both handed the record for channel k, the
\* first of which found the key new and saved its set
DwdTwice(p, k) ==
    /\ pc[p] = "done"
    /\ prev.status = "done"
    /\ k \in prev.routed /\ k \in routed[p]
    /\ DwdAttempts(prev, k) = 1

AlarmTwice(c) ==
    /\ apc = "done"
    /\ aPrev.status = "new" /\ aRun.status \in {"new", "known"}
    /\ aPrev.key = aRun.key
    /\ c \in aPrev.attempted

AlarmAttempts(h, c) == IF c \in h.attempted THEN 1 ELSE 0

\* C2 as stated: an identical record dispatched to the same channel in two
\* consecutive runs, the dedup set persisted in between, makes exactly one
\* delivery attempt in total.
C2_ExactlyOneAttempt ==
    /\ \A p \in Procs, k \in ChannelKeys :
          DwdTwice(p, k) => DwdAttempts(prev, k) + DwdAttempts(DwdNow(p), k) = 1
    /\ \A c \in Channels :
          AlarmTwice(c) => AlarmAttempts(aPrev, c) + AlarmAttempts(aRun, c) = 1

\* C2 amended: ... makes exactly one delivery attempt in total when the
\* first run's delivery to that channel succeeded.
C2_OneAttemptAfterSuccess ==
    /\ \A p \in Procs, k \in ChannelKeys :
          (DwdTwice(p, k) /\ k \in prev.succeeded)
              => DwdAttempts(prev, k) + DwdAttempts(DwdNow(p), k) = 1
    /\ \A c \in Channels :
          (AlarmTwice(c) /\ c \in aPrev.sent)
              => AlarmAttempts(aPrev, c) + AlarmAttempts(aRun, c) = 1

\* both scripts have run the record a second time after a delivery
C2_WitnessDwd ==
    \E p \in Procs, k \in ChannelKeys : DwdTwice(p, k) /\ k \in prev.succeeded

C2_WitnessAlarm == \E c \in Channels : AlarmTwice(c) /\ c \in aPrev.sent

C2_Witness == C2_WitnessDwd \/ C2_WitnessAlarm

\* C3: a key identity|RIC enters the set that the run persists only after
\* post_to_divera returned for that identity and RIC in the same run; a
\* failed post adds no key; the file the run writes is that set.
C3_CommitFollowsSuccess ==
    \A p \in Procs :
        /\ (new_seen[p] \ seen[p]) \subseteq succeeded[p]
        /\ (attempted[p] \ succeeded[p]) \cap new_seen[p] = {}
        /\ pc[p] = "done" => seenFile = save_seen(new_seen[p])

\* a run that posted one key with success and one without has saved
C3_Witness ==
    \E p \in Procs :
        /\ pc[p] = "done"
        /\ succeeded[p] # {} /\ succeeded[p] \subseteq seenFile.keys
        /\ attempted[p] \ succeeded[p] # {}

\* C5: on either channel, a persisted bare identity (no "|RIC") counts as
\* seen: no delivery of that warning to that channel is attempted.
C5_LegacyKeyHitEveryChannel ==
    \A p \in Procs, i \in Idents, ric \in {RIC_INFO, RIC_EINSATZ} :
        i \in seen[p] => KeyOf(i, ric) \notin attempted[p]

\* C6: after a run that ends normally, the persisted set holds every key
\* the file held before the run, also when the file did not parse at load.
C6_KeysNeverRemoved ==
    /\ \A p \in Procs : pc[p] = "done" => loaded[p] \subseteq seenFile.keys
    /\ (apc = "done" /\ aRun.status \in {"nodata", "known", "new"})
          => aRun.loaded \subseteq alarmFile.keys

\* C4: if the delivery of an alarm to one configured channel failed while
\* the other channel delivered it, a later run that fetches the same alarm
\* attempts the failed channel again.
C4_FailedChannelRetried ==
    \A c \in Channels :
        (aRun.status \in {"known", "new"} /\ c \in aRun.owedBefore)
            => c \in aRun.attempted
\* C7 as stated: the number of emitted notifications equals the number of
\* false->true transitions of the rule observed while armed, whatever the
\* delivery outcomes.
C7_EmittedEqualsEdges == emitted = edges

\* C7: the number of emitted notifications never exceeds the number of
\* false->true transitions observed while armed, and equals it as long as
\* every invocation that found the rule true while armed delivered; it is
\* not the number of true samples.
C7_EmittedFollowsEdges ==
    /\ emitted <= edges
    /\ edges <= trues
    /\ (~missed => emitted = edges)

\* two events, the first one seen true twice: two notifications
C7_Witness ==
    /\ emitted = 2 /\ edges = 2 /\ trues = 3 /\ ~missed
    /\ acute.sent

\* C8: while disarmed, an invocation whose rule evaluates true attempts no
\* delivery and leaves the persisted state unchanged.
C8_DisarmedTrueIsNoOp ==
    [][ (polls' = polls + 1 /\ acute'.kind = "eval" /\ acute'.ok_now
         /\ fireFile.parseable /\ fireFile.st.acute_armed = "false")
        => (/\ ~acute'.attempted
            /\ ~acute'.wrote
            /\ fireFile' = fireFile
            /\ emitted' = emitted) ]_vars

C8_Witness ==
    /\ acute.kind = "eval" /\ acute.ok_now /\ ~acute.armed
    /\ fireFile.st.acute_armed = "false"
    /\ fireFile.st.acute_event_start_iso.tag = "value"
    /\ trues >= 2 /\ emitted = 1

\* C9: a false evaluation while disarmed sets acute_armed to true, clears
\* the event start and attempts no delivery; a false evaluation while armed
\* changes nothing and attempts no delivery.
C9_SilentRearm ==
    [][ (polls' = polls + 1 /\ acute'.kind = "eval" /\ ~acute'.ok_now)
        => (/\ ~acute'.attempted
            /\ emitted' = emitted
            /\ IF ArmedOf(_load_state(fireFile))
               THEN fireFile' = fireFile
               ELSE /\ fireFile'.parseable
                    /\ fireFile'.st.acute_armed = "true"
                    /\ fireFile'.st.acute_event_start_iso = JsonNull
                    /\ fireFile'.st.daily_sent_date = fireFile.st.daily_sent_date) ]_vars

C9_Witness ==
    /\ acute.kind = "eval" /\ ~acute.ok_now /\ ~acute.armed /\ acute.wrote
    /\ fireFile.st.acute_armed = "true"
    /\ fireFile.st.acute_event_start_iso = JsonNull
    /\ emitted = 1

\* C10: for every ordered sample sequence the windows _windows_ok returns
\* are pairwise disjoint, sorted by start, have start <= end, and every
\* rule-satisfying sample lies in exactly one of them.
InWindow(row, win) == win[1] <= row.time /\ row.time <= win[2]

RowsAscending ==
    \A i, j \in 1..Len(wRows) : i < j => wRows[i].time < wRows[j].time

C10_WindowsPartitionHits ==
    (wpc = "done" /\ RowsAscending) =>
        /\ \A i \in 1..Len(wWins) : wWins[i][1] <= wWins[i][2]
        /\ \A i, j \in 1..Len(wWins) : i < j => wWins[i][2] < wWins[j][1]
        /\ \A i \in 1..Len(wRows) :
              _ok(wRows[i]) =>
                  Cardinality({j \in 1..Len(wWins) : InWindow(wRows[i], wWins[j])}) = 1

\* two windows, one of them longer than an hour, around a gap
C10_Witness ==
    /\ wpc = "done" /\ RowsAscending
    /\ Len(wWins) = 2
    /\ \E i \in 1..Len(wWins) : wWins[i][1] < wWins[i][2]

\* C11: two rule-satisfying hours separated by an hour that _timeseries
\* dropped (null temperature, humidity or wind mean) lie in different
\* windows, as if the dropped hour had evaluated false.
DroppedHour(x) == IsNull(x.t) \/ IsNull(x.rh) \/ IsNull(x.ws)

HitAt(time) ==
    \E r \in 1..Len(wRows) : wRows[r].time = time /\ _ok(wRows[r])

SameWindow(a, b) ==
    \E w \in 1..Len(wWins) :
        /\ wWins[w][1] <= a /\ a <= wWins[w][2]
        /\ wWins[w][1] <= b /\ b <= wWins[w][2]

C11_DroppedHourBreaksWindow ==
    wpc = "done" =>
        \A i, j, k \in 1..Len(wData.samples) :
            (i < j /\ j < k /\ DroppedHour(wData.samples[j])
             /\ HitAt(i - 1) /\ HitAt(k - 1))
                => ~SameWindow(i - 1, k - 1)

\* C12: on one date at most one daily notification is delivered, and once
\* daily_sent_date equals today run_daily attempts no further delivery.
C12_DailyAtMostOnce ==
    /\ [](\A d \in Days : delivered[d] <= 1)
    /\ [][ AlreadySent(_load_state(fireFile), clockDay)
           => (/\ delivered' = delivered
               /\ fireFile' = fireFile
               /\ (daily' # daily => (daily'.kind = "already" /\ ~daily'.attempted))) ]_vars

\* sent on the first date and on the next, then invoked once more
C12_Witness ==
    /\ daily.kind = "already" /\ daily.today = 1
    /\ delivered[0] = 1 /\ delivered[1] = 1
    /\ fireFile.st.daily_sent_date = Value(1)

\* C13: when the only rule-satisfying hours of the day are 14:00 and 15:00,
\* there is the one window [14:00, 15:00] and the daily notification states
\* validity from 14:00 to 16:00.
C13_EndRoundedToNextHour ==
    (daily.kind = "post" /\ daily.sent
     /\ daily.hits = {24 * daily.today + 14, 24 * daily.today + 15})
    => (/\ daily.wins = <<<<24 * daily.today + 14, 24 * daily.today + 15>>>>
        /\ daily.von = [day |-> daily.today, hour |-> 14, minute |-> 0]
        /\ daily.bis = [day |-> daily.today, hour |-> 16, minute |-> 0])

\* C14: run_daily hands a notification to the transport iff it has not yet
\* sent today and today's samples hold at least one window, i.e. at least
\* one rule-satisfying hour; the notification starts at the first window's
\* start and ends at the hour of the last window's end.
Earliest(S) == CHOOSE x \in S : \A y \in S : x <= y
Latest(S) == CHOOSE x \in S : \A y \in S : y <= x

C14_DailySendsIffWindow ==
    daily.kind # "none" =>
        /\ (daily.kind = "post") <=> (daily.kind # "already" /\ daily.hits # {})
        /\ (daily.kind = "post") <=> (daily.wins # <<>>)
        /\ daily.attempted <=> (daily.kind = "post" /\ fireKey)
        /\ daily.kind = "post" =>
              /\ daily.wins[1][1] = Earliest(daily.hits)
              /\ daily.wins[Len(daily.wins)][2] = Latest(daily.hits)
              /\ daily.von = [day |-> DayOf(daily.wins[1][1]),
                              hour |-> HourOf(daily.wins[1][1]), minute |-> 0]
              /\ 24 * daily.bis.day + daily.bis.hour
                    \in {daily.wins[Len(daily.wins)][2],
                         daily.wins[Len(daily.wins)][2] + 1}

\* two windows on the day, the notification delivered
C14_Witness ==
    /\ daily.kind = "post" /\ daily.sent
    /\ Len(daily.wins) = 2
    /\ daily.von.hour = 14 /\ daily.bis.hour = 16

\* C15: the notification run_acute emits starts at the current hour, which
\* is also stored as the event start, and ends at the end of the window of
\* Window Evaluation that contains that hour, or one hour later when no
\* window contains it.
WindowsAround(wins, time) ==
    {w \in 1..Len(wins) : wins[w][1] <= time /\ time <= wins[w][2]}

C15_WitnessFallback ==
    /\ acute.kind = "eval" /\ acute.sent
    /\ acute.wins # <<>>
    /\ WindowsAround(acute.wins, acute.von) = {}
    /\ acute.bis = acute.von + 1

\* C16: in every HTTP helper, a call whose attempts 1..N-1 fail and whose
\* attempt N succeeds returns success after exactly N-1 sleeps, the k-th of
\* them at least 2^(k-1) seconds long.
Succeeded == tpc = "done" /\ tResult \in {"value", "True"}

C16_RetryBackoff ==
    Succeeded =>
        /\ Len(sleeps) = calls - 1
        /\ \A k \in 1..Len(sleeps) : sleeps[k] >= 2 * (2 ^ (k - 1))

\* C17: every notification POST that fails on an attempt before the N-th
\* is retried, up to N = HTTP_RETRIES attempts, in all four scripts.
C17_EveryPostRetried ==
    (tpc = "done" /\ tr.kind = "POST" /\ ~Succeeded) => calls = tN

\* C18: a helper with a retry loop makes at most N = HTTP_RETRIES calls,
\* does not sleep after the final failed attempt, and when all N attempts
\* fail returns None (GET) or False (POST) without raising.
C18_DefinitiveResult ==
    tr.loop =>
        /\ calls <= tN
        /\ tResult # "raised"
        /\ tpc = "done" =>
              /\ Len(sleeps) = calls - 1
              /\ ~Succeeded =>
                    /\ calls = tN /\ failed = tN
                    /\ tResult = IF tr.kind = "GET" THEN "None" ELSE "False"

\* a POST helper that gave up after the last of several attempts
C18_Witness ==
    /\ tr.loop /\ tr.kind = "POST" /\ tpc = "done"
    /\ tN >= 3 /\ failed = tN /\ tResult = "False"

\* C19: in one run a delivery failure on one channel never prevents the
\* attempt on the other channel (dwd2divera: Info and Einsatz;
\* alarm_broadcast: sub-unit news and Telegram), and the run-summary counts
\* equal the number of successful deliveries per channel.
DwdDue(p) ==
    {KeyOf(i, RIC_INFO) : i \in {j \in Idents : ~already_info(seen[p], j)}}
    \cup {KeyOf(i, RIC_EINSATZ) : i \in {j \in Idents : ~already_einsatz(seen[p], j)}}

C19_ChannelsIndependent ==
    /\ \A p \in Procs :
         pc[p] \in {"loop", "done", "crashed"} =>
            /\ (routed[p] \cap DwdDue(p)) \subseteq attempted[p]
            /\ counts[p].info = posted[p].info
            /\ counts[p].einsatz = posted[p].einsatz
            /\ counts[p].total = posted[p].info + posted[p].einsatz
    /\ aRun.status \in {"new", "crashed"} =>
            /\ aRun.attempted = {c \in Channels : alarmCfg[c]}
            /\ aRun.sent \subseteq aRun.attempted

\* the Info POST failed and the Einsatz POST of the same run was delivered
C19_WitnessDwd ==
    \E p \in Procs :
        /\ pc[p] = "done"
        /\ KeyOf("A", RIC_INFO) \in attempted[p] \ succeeded[p]
        /\ KeyOf("A", RIC_EINSATZ) \in succeeded[p]
        /\ counts[p] = [total |-> 1, info |-> 0, einsatz |-> 1]

\* the news to the sub-unit failed and the Telegram message was delivered
C19_WitnessAlarm ==
    /\ aRun.status = "new"
    /\ aRun.attempted = Channels
    /\ aRun.sent = {"tg"}

C19_Witness == C19_WitnessDwd \/ C19_WitnessAlarm

\* C20: when the fetch succeeds and the issue line of the page equals the
\* stored one, the stored text is returned unchanged and the cache entry is
\* not rewritten, however old the entry and whatever text the page yields.
C20_MarkerEqualityAuthoritative ==
    [][ (gets' = gets + 1 /\ cget'.fetched /\ cget'.issue # "none"
         /\ cget'.issue = _load_warnlage_cache(cacheFile).issue)
        => (/\ cget'.returned = SomeText(_load_warnlage_cache(cacheFile).text)
            /\ ~cget'.wrote
            /\ cacheFile' = cacheFile) ]_vars

\* C25: when the warnings fetch fails after all retries, the run goes on
\* with no records: it makes no delivery attempt, and the dedup set it
\* writes at its end is the set it loaded at its start.
C25_SourceFailureNotFatal ==
    /\ [](\A p \in Procs :
            (fetched[p] = "failed" /\ pc[p] \in {"loop", "done"})
            => (/\ remaining[p] = 0
                /\ attempted[p] = {} /\ routed[p] = {}
                /\ posted[p] = [info |-> 0, einsatz |-> 0]
                /\ counts[p] = ZeroCounts))
    /\ [][ \A p \in Procs :
            (fetched[p] = "failed" /\ pc[p] = "loop" /\ pc'[p] = "done")
            => seenFile' = save_seen(seen[p]) ]_vars

\* a run whose fetch failed has rewritten a non-empty dedup file as it was
C25_Witness ==
    \E p \in Procs :
        /\ pc[p] = "done" /\ fetched[p] = "failed"
        /\ seen[p] # {} /\ seenFile = save_seen(seen[p])

\* the events of the latest run that are HTTP requests
IsRequest(e) == e.kind \in {"get", "post"}

\* C26: in every script a missing or structurally invalid mandatory access
\* key is detected before the run performs its first HTTP request, and a
\* missing key of one optional channel disables only that channel.
C26_KeyCheckedBeforeNetwork ==
    /\ ~krun.mandatory
       => \A i \in 1..Len(krun.events) :
             IsRequest(krun.events[i])
             => \E j \in 1..(i - 1) : krun.events[j].kind = "nokey"
    /\ (krun.script = "alarm_broadcast" /\ krun.mandatory
        /\ \E i \in 1..Len(krun.events) : krun.events[i].kind = "skip")
       => \A c \in Channels :
             (c \in krun.optional)
             <=> \E i \in 1..Len(krun.events) :
                    krun.events[i] = Event("post", c)

\* C27: in dwd2divera main, for every way the run can end after at least
\* one successful delivery, an exception raised while building a later
\* payload included, the keys of the deliveries that succeeded are in the
\* dedup file when the process exits.
C27_PersistedOnEveryExit ==
    \A p \in Procs :
        (pc[p] \in {"done", "aborted"} /\ succeeded[p] # {})
        => (seenFile.parseable /\ succeeded[p] \subseteq seenFile.keys)

\* C28: if a run is interrupted at any point, in the middle of writing a
\* state file included, the state the next run loads is either the state
\* before the run or the fully written new state, so every key persisted
\* before the crash is still seen afterwards.
C28_CrashKeepsStoredState ==
    /\ \A p \in Procs :
          pc[p] = "crashed"
          => (/\ load_seen(seenFile) \in {seen[p], new_seen[p]}
              /\ seen[p] \subseteq load_seen(seenFile))
    /\ apc = "crashed"
       => (/\ load_seen(alarmFile) \in {aRun.loaded, aSeen}
           /\ aRun.loaded \subseteq load_seen(alarmFile))

\* the ordinal of a severity string: minor = 1 < moderate = 2 < severe = 3
\* < extreme = 4, every other string 0
Ordinal(s) ==
    CASE s = "minor" -> 1
      [] s = "moderate" -> 2
      [] s = "severe" -> 3
      [] s = "extreme" -> 4
      [] OTHER -> 0

\* C29: a delivery to the Einsatz channel (RIC_EINSATZ) is attempted for a
\* warning only if the ordinal of its severity is at least the ordinal of
\* the configured threshold (severe = 3 by default); unknown and empty
\* severity strings have ordinal 0.
C29_SeverityRouting ==
    lastPass.einsatz
    => Ordinal(lastPass.severity) >= Ordinal(SEVERITY_THRESHOLD_RIC2)

\* a warning at the threshold was posted to the Einsatz channel, and a
\* POST to that channel is on record
C29_Witness ==
    /\ lastPass.einsatz /\ lastPass.severity = "severe"
    /\ \E p \in Procs : KeyOf("A", RIC_EINSATZ) \in attempted[p]

\* C30: every notification body posted to the delivery API by any of the
\* four scripts has a title of at most 120 characters and a text of at
\* most 8000 characters, for titles and texts of any input length.
C30_PayloadClamp ==
    pbody.body.api = "divera"
    => (/\ pbody.body.title <= 120 /\ pbody.body.title <= pbody.title_in
        /\ pbody.body.text <= 8000 /\ pbody.body.text <= pbody.text_in
        /\ pbody.title_in <= 120 => pbody.body.title = pbody.title_in
        /\ pbody.text_in <= 8000 => pbody.body.text = pbody.text_in)

\* a title and a text that are both too long were cut
C30_Witness ==
    /\ pbody.body.api = "divera"
    /\ pbody.title_in > 120 /\ pbody.body.title = 120
    /\ pbody.text_in > 8000 /\ pbody.body.text = 8000

\* the latest call fetched a page that yielded the text it recorded
FetchedPage == cget.path # "none" /\ cget.fetched

\* the entry that the latest call left in the file
StoredNow == _load_warnlage_cache(cacheFile)

\* C21: when a fetch succeeds with non-empty extracted text and an issue
\* line different from the stored one (or none stored), the cache entry is
\* replaced by the new issue line, text, fingerprint and timestamp with
\* no_marker = FALSE, and the new text is returned.
C21_ChangedMarkerReplaces ==
    (FetchedPage /\ cget.chosen # <<>> /\ cget.issue # "none"
     /\ cget.issue # cbefore.issue)
    => (/\ cget.wrote
        /\ StoredNow = [issue |-> cget.issue, text |-> cget.chosen,
                        hash |-> Sha256(cget.chosen), saved_ts |-> cget.now_ts,
                        no_marker |-> FALSE]
        /\ cget.returned = SomeText(cget.chosen))

\* a stored issue line is replaced by a different one
C21_Witness ==
    /\ FetchedPage /\ cget.chosen # <<>> /\ cget.issue # "none"
    /\ cbefore.issue # "none" /\ cget.issue # cbefore.issue
    /\ cget.wrote /\ cbefore.text # cget.chosen

\* the stored entry is without issue line, has the fingerprint of the new
\* text and is younger than the TTL
ReuseCondition ==
    /\ cbefore.no_marker
    /\ cbefore.hash = Sha256(cget.chosen)
    /\ cget.now_ts - cbefore.saved_ts < WARNLAGE_TTL_SECONDS

\* the latest call gave back the stored text and left the file alone
Reused ==
    /\ cget.returned = SomeText(cbefore.text) /\ ~cget.wrote
    /\ StoredNow = cbefore

\* the latest call wrote a marker-less entry for the new text and gave
\* the new text back
ReplacedPlain ==
    /\ cget.wrote
    /\ StoredNow = [issue |-> "none", text |-> cget.chosen,
                    hash |-> Sha256(cget.chosen), saved_ts |-> cget.now_ts,
                    no_marker |-> TRUE]
    /\ cget.returned = SomeText(cget.chosen)

\* C22 as stated: when a fetch succeeds and no issue line is found, the
\* cached text is reused iff the stored entry is marker-less, has the
\* fingerprint of the new text and is younger than the TTL; in every other
\* case the entry is replaced and the new text returned.
C22_MarkerlessReuseRule ==
    (FetchedPage /\ cget.issue = "none")
    => IF ReuseCondition THEN Reused ELSE ReplacedPlain

\* C22, amended: the rule holds when the fetch yields a non-empty text; a
\* page that yields no text returns nothing and leaves the entry alone.
C22_MarkerlessReuseRuleNonEmpty ==
    /\ (FetchedPage /\ cget.issue = "none" /\ cget.chosen # <<>>)
       => IF ReuseCondition THEN Reused ELSE ReplacedPlain
    /\ (FetchedPage /\ cget.issue = "none" /\ cget.chosen = <<>>)
       => (cget.returned = NoText /\ ~cget.wrote /\ StoredNow = cbefore)

\* a marker-less entry with the same fingerprint, expired, is replaced
C22_Witness ==
    /\ FetchedPage /\ cget.issue = "none" /\ cget.chosen # <<>>
    /\ cbefore.no_marker /\ cbefore.hash = Sha256(cget.chosen)
    /\ cget.now_ts - cbefore.saved_ts >= WARNLAGE_TTL_SECONDS
    /\ cget.wrote

\* C23: if the stored entry is marker-less, has text and was saved less
\* than TTL seconds ago, the call returns the stored text without an HTTP
\* request and without writing the cache.
C23_NoFetchInsideTtl ==
    (/\ cget.path # "none"
     /\ cbefore.no_marker /\ cbefore.text # <<>>
     /\ cget.now_ts - cbefore.saved_ts < WARNLAGE_TTL_SECONDS)
    => (/\ cget.returned = SomeText(cbefore.text)
        /\ ~cget.requested /\ ~cget.fetched
        /\ ~cget.wrote /\ StoredNow = cbefore)

\* a call one second before the entry expires
C23_Witness ==
    /\ cget.path = "ttl" /\ cbefore.no_marker /\ cbefore.text # <<>>
    /\ cget.now_ts - cbefore.saved_ts = WARNLAGE_TTL_SECONDS - 1
    /\ ~cget.requested

\* C24: when the page fetch fails after all retries, the call returns the
\* last stored text if there is one, whatever its age or marker, and
\* nothing otherwise, and leaves the stored entry unchanged.
C24_FallbackOnFetchFailure ==
    (cget.path # "none" /\ cget.requested /\ ~cget.fetched)
    => (/\ cget.returned = IF cbefore.text # <<>> THEN SomeText(cbefore.text)
                           ELSE NoText
        /\ ~cget.wrote /\ StoredNow = cbefore)

\* a failed fetch gives back an expired text stored under an issue line
C24_WitnessMarker ==
    /\ cget.requested /\ ~cget.fetched /\ cget.returned.some
    /\ ~cbefore.no_marker
    /\ cget.now_ts - cbefore.saved_ts >= WARNLAGE_TTL_SECONDS

\* a failed fetch gives back an expired marker-less text
C24_WitnessPlain ==
    /\ cget.requested /\ ~cget.fetched /\ cget.returned.some
    /\ cbefore.no_marker
    /\ cget.now_ts - cbefore.saved_ts >= WARNLAGE_TTL_SECONDS

\* a failed fetch gives back a stored text, with or without issue line,
\* and nothing when nothing is stored
C24_Witness ==
    /\ cget.requested /\ ~cget.fetched
    /\ cget.returned = SomeText(cbefore.text)
    /\ cbefore.text # <<>>

\* the latest call asked for the page although the stored entry is
\* marker-less: only for an expired entry, or one without text or timestamp
FetchOnlyWhenStale ==
    (cget.path # "none" /\ cget.requested /\ cbefore.no_marker)
    => \/ cget.now_ts - cbefore.saved_ts >= WARNLAGE_TTL_SECONDS
       \/ cbefore.text = <<>>
       \/ cbefore.saved_ts = 0

\* the latest call wrote a marker-less entry stamped with its own time
RewrittenFresh ==
    /\ cget.wrote /\ StoredNow.no_marker
    /\ StoredNow.saved_ts = cget.now_ts
    /\ StoredNow.text = cget.chosen

\* the fingerprint-reuse branch is taken only for an entry whose saved
\* timestamp is zero
ReuseBranchOnlyUnstamped == cget.path = "hash_hit" => cbefore.saved_ts = 0

\* C37 as stated: for a marker-less entry a fetch happens only once its TTL
\* has elapsed (or the entry has no text or no timestamp); whenever such a
\* fetch succeeds and again yields no marker, the entry is rewritten with a
\* fresh timestamp even when the fingerprint is unchanged; the
\* fingerprint-reuse branch is never taken for a non-zero timestamp.
C37_MarkerlessAlwaysRewritten ==
    /\ FetchOnlyWhenStale
    /\ (FetchedPage /\ cbefore.no_marker /\ cget.issue = "none")
       => RewrittenFresh
    /\ ReuseBranchOnlyUnstamped

\* C37, amended: the rewrite follows when the fetch yields a non-empty
\* text; a page that yields no text leaves the entry as it was.
C37_MarkerlessRewrittenNonEmpty ==
    /\ FetchOnlyWhenStale
    /\ (FetchedPage /\ cbefore.no_marker /\ cget.issue = "none"
        /\ cget.chosen # <<>>)
       => RewrittenFresh
    /\ (FetchedPage /\ cbefore.no_marker /\ cget.issue = "none"
        /\ cget.chosen = <<>>)
       => (~cget.wrote /\ StoredNow = cbefore)
    /\ ReuseBranchOnlyUnstamped

\* an expired marker-less entry is rewritten with the same text and a
\* later timestamp
C37_Witness ==
    /\ FetchedPage /\ cbefore.no_marker /\ cget.issue = "none"
    /\ cbefore.text = cget.chosen /\ cget.chosen # <<>>
    /\ RewrittenFresh /\ StoredNow.saved_ts > cbefore.saved_ts

\* the invocation that has just ended could not decide or could not deliver:
\* no current data, an incomplete snapshot, no valid hourly rows, or a
\* delivery that failed
AcuteUndecided(run) ==
    \/ run.kind \in {"nodata", "incomplete"}
    \/ run.norows
    \/ (run.branch = "send" /\ ~run.norows /\ ~run.sent)

\* C36: a run_acute invocation in which no provider returns current data,
\* the snapshot is incomplete, no valid hourly rows exist, or the delivery
\* fails writes nothing to the state file: acute_armed and
\* acute_event_start_iso keep their previous values.
C36_UndecidedLeavesState ==
    [][(polls' # polls /\ AcuteUndecided(acute'))
       => /\ fireFile' = fireFile
          /\ ~acute'.wrote
          /\ _load_state(fireFile').acute_armed = _load_state(fireFile).acute_armed
          /\ _load_state(fireFile').acute_event_start_iso
               = _load_state(fireFile).acute_event_start_iso]_vars

\* a delivery failed after an event had been sent and cleared: the file
\* still holds the re-armed state
C36_Witness ==
    /\ acute.branch = "send" /\ acute.attempted /\ ~acute.sent
    /\ fireFile.st.acute_armed = "true"
    /\ fireFile.st.acute_event_start_iso = JsonNull

\* an incomplete snapshot during an event: the file still holds the event
C36_WitnessIncomplete ==
    /\ acute.kind = "incomplete"
    /\ fireFile.st.acute_armed = "false"

\* the only null field of the sample is the wind gust
OnlyGustNull(x) ==
    ~IsNull(x.t) /\ ~IsNull(x.rh) /\ ~IsNull(x.ws) /\ IsNull(x.wg)

\* the row _timeseries made of hour i of the block
RowOfHour(i) == {r \in 1..Len(wRows) : wRows[r].time = i - 1}

\* the hours present in every array of the block
AlignedHours ==
    1..(IF Len(wData.samples) >= wData.short
        THEN Len(wData.samples) - wData.short ELSE 0)

C34_WitnessNow ==
    wpc = "now" /\ OnlyGustNull(wCur) /\ OkNow(wNow)

\* the second invocation never runs: the runs are strictly sequential
Sequential == pc["p2"] = "off"

\* both invocations loaded the file before either saved
BothLoaded == \A p \in Procs : pc[p] = "loop"

\* a write of the file drops a key that a completed save had put there
DropsCommittedKey ==
    /\ seenFile' # seenFile
    /\ seenFile.parseable
    /\ ~(seenFile.keys \subseteq seenFile'.keys)

\* C35, second half: with strictly sequential runs no identity|RIC is
\* delivered twice and no write of the file drops a key that an earlier run
\* had committed to it.
C35_SequentialRunsSafe ==
    /\ [](Sequential => deliveredAgain = {})
    /\ [][Sequential => ~DropsCommittedKey]_vars

\* the same, for sequential runs in which no fetched list repeated an
\* identity, no run was left by an exception and no save was cut short
NoOtherFault ==
    /\ \A p \in Procs : multi[p] = {} /\ pc[p] \notin {"aborted", "crashed"}
    /\ prev.multi = {} /\ prev.status \notin {"aborted", "crashed"}
    /\ runsStarted <= 2

C35_SequentialRunsSafeOtherwise ==
    /\ []((Sequential /\ NoOtherFault) => deliveredAgain = {})
    /\ [][(Sequential /\ NoOtherFault /\ NoOtherFault') => ~DropsCommittedKey]_vars

\* C35, first half: two overlapping invocations, each delivering a key once
\* and saving in full, have delivered the same identity|RIC twice
C35_WitnessTwice ==
    /\ \A p \in Procs : pc[p] = "done" /\ multi[p] = {}
    /\ succeeded["p1"] \cap succeeded["p2"] # {}
    /\ deliveredAgain # {}
    /\ loaded["p1"] = loaded["p2"]

\* C35, first half: the key one invocation committed is missing from the
\* file after the full-file write of the other
C35_WitnessLost ==
    /\ \A p \in Procs : pc[p] = "done"
    /\ seenFile.parseable
    /\ \E k \in succeeded["p1"] : k \notin seenFile.keys /\ k \notin succeeded["p2"]

\* the invocation that has just ended attempted a delivery for gauge g
\* exactly when it had a reading at or above the threshold and the flag it
\* found stored was false or absent
AttemptIffCrossUp(g) ==
    gRun'[g].attempted <=>
        /\ ~IsNull(gRun'[g].reading)
        /\ ValOf(gRun'[g].reading) >= Threshold(g)
        /\ pegelState[g] \in {"false", "absent"}

\* a stored flag `true` stays until a reading below the threshold is stored
AboveUntilBelow(g) ==
    (pegelState[g] = "true" /\ pegelState'[g] # "true")
        => /\ ~IsNull(gRun'[g].reading)
           /\ ValOf(gRun'[g].reading) < Threshold(g)
           /\ pegelState'[g] = "false"

\* C33: for each gauge, a delivery is attempted in a run iff the reading is
\* available, is >= the threshold and the stored above flag is false or
\* absent; once a run has stored above = true, no delivery is attempted
\* until a reading below the threshold has been stored.
C33_GaugeCrossUpOnly ==
    [][gRuns' # gRuns =>
         \A g \in Gauges :
             /\ AttemptIffCrossUp(g)
             /\ AboveUntilBelow(g)
             /\ (pegelState[g] = "true" => ~gRun'[g].attempted)]_vars

\* the level of the Rhine stayed at or above the mark for a second run,
\* which attempted nothing; the Erft gauge had no reading
C33_Witness ==
    /\ gRuns >= 2
    /\ pegelState["dus"] = "true"
    /\ ~IsNull(gRun["dus"].reading)
    /\ ValOf(gRun["dus"].reading) >= DUS_THRESHOLD_CM
    /\ ~gRun["dus"].attempted
    /\ IsNull(gRun["neu"].reading) /\ pegelState["neu"] = "absent"

\* C32, pegel_watch: when the delivery of a crossing failed after all
\* retries and the level is still at or above the threshold at the next
\* run, that run attempts the delivery again.
C32_FailedCrossingRetried ==
    [][gRuns' # gRuns =>
         \A g \in Gauges :
             (/\ pegelKey /\ gRun[g].attempted /\ ~gRun[g].sent
              /\ ~IsNull(gRun'[g].reading)
              /\ ValOf(gRun'[g].reading) >= Threshold(g))
                 => gRun'[g].attempted]_vars

\* C32, acute mode of fire_danger_watch: a delivery that failed leaves the
\* state armed, and the next invocation that finds the rule true takes the
\* sending branch again (it posts when it has hourly rows)
C32_FireFailedCrossingRetried ==
    [][(/\ polls' # polls
        /\ acute.branch = "send" /\ acute.attempted /\ ~acute.sent
        /\ acute'.kind = "eval" /\ acute'.ok_now)
          => /\ acute'.branch = "send"
             /\ (~acute'.norows => acute'.attempted = fireKey)]_vars

\* C31: no log line written on a failed GET or POST in any script contains
\* the response body, the full request URL, or the value of the access key
\* or bot token.
C31_RedactedFailureLogs ==
    lLine.written => lLine.parts \cap {"body", "url", "secret"} = {}

\* the same for the two POST helpers of alarm_broadcast alone
C31_RedactedAlarmPosts ==
    (lLine.written /\ lTr.script = "alarm_broadcast" /\ lTr.kind = "POST")
        => lLine.parts = {"type"}
====
